---- MODULE Spec2Model ----
(***************************************************************************)
(* A model of the template customization engine of next.js-template-basic: *)
(* scripts/setup.ts (project renaming, component-library installation,     *)
(* provider injection) and scripts/seo-setup.ts (SEO scaffold generation). *)
(*                                                                         *)
(* Text is modelled as text: every file content, project name and prompt   *)
(* answer is a TLA+ string, and the JavaScript string operations the       *)
(* scripts use (includes, replace, split, trim, case mapping, the regular  *)
(* expressions) are operators over the characters of those strings.        *)
(***************************************************************************)
EXTENDS Integers, Sequences, FiniteSets, TLC

(***************************************************************************)
(* Bounds of the model.                                                    *)
(***************************************************************************)
\* calls of one function on one file in the function-level specification
MaxCalls == 3
\* consecutive rejected answers at a numbered menu
MaxRetries == 2
\* fragments a file patched by updateFile is put together from
MaxFrags == 2
\* fragments a layout handed to a layout patcher is put together from
MaxLayoutFrags == 3
MaxItems == 4

(***************************************************************************)
(* JavaScript strings.                                                     *)
(***************************************************************************)
Ch(s, i) == SubSeq(s, i, i)

Min(S) == CHOOSE x \in S : \A y \in S : x <= y

Lowers == "abcdefghijklmnopqrstuvwxyz"
Uppers == "ABCDEFGHIJKLMNOPQRSTUVWXYZ"
Digits == "0123456789"

InStr(c, alphabet) == \E i \in 1..Len(alphabet) : Ch(alphabet, i) = c
PosIn(c, alphabet) == CHOOSE i \in 1..Len(alphabet) : Ch(alphabet, i) = c

\* the characters of the model that the regular-expression class \s matches
IsWs(c) == c \in {" ", "\t", "\n", "\r"}
IsLetter(c) == InStr(c, Lowers) \/ InStr(c, Uppers)
IsDigit(c) == InStr(c, Digits)

\* String.prototype.toUpperCase / toLowerCase on the ASCII range
UpperCh(c) == IF InStr(c, Lowers) THEN Ch(Uppers, PosIn(c, Lowers)) ELSE c
LowerCh(c) == IF InStr(c, Uppers) THEN Ch(Lowers, PosIn(c, Uppers)) ELSE c

RECURSIVE MapCh(_, _)
MapCh(s, up) ==
  IF s = "" THEN ""
  ELSE (IF up THEN UpperCh(Ch(s, 1)) ELSE LowerCh(Ch(s, 1))) \o MapCh(Tail(s), up)

toUpperCase(s) == MapCh(s, TRUE)
toLowerCase(s) == MapCh(s, FALSE)

\* String.prototype.includes
Includes(s, t) ==
  \E i \in 1..(Len(s) - Len(t) + 1) : SubSeq(s, i, i + Len(t) - 1) = t

\* the first index >= i at which t occurs in s, 0 when there is none
IndexOfFrom(s, t, i) ==
  LET hits == {j \in i..(Len(s) - Len(t) + 1) : SubSeq(s, j, j + Len(t) - 1) = t}
  IN  IF hits = {} THEN 0 ELSE Min(hits)

startsWith(s, t) == Len(t) <= Len(s) /\ SubSeq(s, 1, Len(t)) = t

\* String.prototype.replace with a string pattern: the first occurrence only
ReplaceFirst(s, from, to) ==
  LET i == IndexOfFrom(s, from, 1)
  IN  IF i = 0 THEN s
      ELSE SubSeq(s, 1, i - 1) \o to \o SubSeq(s, i + Len(from), Len(s))

\* String.prototype.replace with new RegExp(escapeRegex(from), "g"): every
\* occurrence of the literal text, found left to right, never overlapping and
\* never rescanning what was substituted
RECURSIVE ReplaceAll(_, _, _)
ReplaceAll(s, from, to) ==
  LET i == IndexOfFrom(s, from, 1)
  IN  IF i = 0 \/ from = "" THEN s
      ELSE SubSeq(s, 1, i - 1) \o to
             \o ReplaceAll(SubSeq(s, i + Len(from), Len(s)), from, to)

\* the number of non-overlapping occurrences of t in s
RECURSIVE Count(_, _)
Count(s, t) ==
  LET i == IndexOfFrom(s, t, 1)
  IN  IF i = 0 \/ t = "" THEN 0
      ELSE 1 + Count(SubSeq(s, i + Len(t), Len(s)), t)

\* the first index >= i of s that is not whitespace, Len(s) + 1 when none is
SkipWs(s, i) ==
  LET stops == {j \in i..Len(s) : ~IsWs(Ch(s, j))}
  IN  IF stops = {} THEN Len(s) + 1 ELSE Min(stops)

\* String.prototype.trim
RECURSIVE TrimEnd(_)
TrimEnd(s) ==
  IF s # "" /\ IsWs(Ch(s, Len(s))) THEN TrimEnd(SubSeq(s, 1, Len(s) - 1)) ELSE s

Trim(s) == LET i == SkipWs(s, 1) IN TrimEnd(SubSeq(s, i, Len(s)))

\* String.prototype.repeat is not needed; join of a sequence of strings
RECURSIVE Join(_, _)
Join(words, sep) ==
  IF words = <<>> THEN ""
  ELSE IF Len(words) = 1 THEN words[1]
  ELSE words[1] \o sep \o Join(Tail(words), sep)

(***************************************************************************)
(* scripts/setup.ts: the replacement rule table.                           *)
(***************************************************************************)
IsNameSep(c) == c \in {"-", "_"} \/ IsWs(c)

\* projectName.split(/[-_\s]+/)
RECURSIVE SplitWords(_)
SplitWords(s) ==
  LET seps == {j \in 1..Len(s) : IsNameSep(Ch(s, j))}
  IN  IF seps = {} THEN <<s>>
      ELSE LET i    == Min(seps)
               rest == {j \in (i + 1)..Len(s) : ~IsNameSep(Ch(s, j))}
               k    == IF rest = {} THEN Len(s) + 1 ELSE Min(rest)
           IN  <<SubSeq(s, 1, i - 1)>> \o SplitWords(SubSeq(s, k, Len(s)))

\* word.charAt(0).toUpperCase() + word.slice(1).toLowerCase()
Capitalize(word) ==
  IF word = "" THEN "" ELSE UpperCh(Ch(word, 1)) \o toLowerCase(Tail(word))

toTitleCase(projectName) ==
  LET words == SplitWords(projectName)
  IN  Join([i \in 1..Len(words) |-> Capitalize(words[i])], " ")

\* .replace(/\s+/g, "-"): every maximal run of whitespace becomes one hyphen
RECURSIVE WsToHyphen(_)
WsToHyphen(s) ==
  IF s = "" THEN ""
  ELSE IF IsWs(Ch(s, 1))
       THEN "-" \o WsToHyphen(SubSeq(s, SkipWs(s, 1), Len(s)))
       ELSE Ch(s, 1) \o WsToHyphen(Tail(s))

\* .replace(/[^a-z0-9-]/g, "")
RECURSIVE KeepKebab(_)
KeepKebab(s) ==
  IF s = "" THEN ""
  ELSE (IF InStr(Ch(s, 1), Lowers) \/ IsDigit(Ch(s, 1)) \/ Ch(s, 1) = "-"
        THEN Ch(s, 1) ELSE "") \o KeepKebab(Tail(s))

toKebabCase(projectName) == KeepKebab(WsToHyphen(toLowerCase(projectName)))

Rule(from, to) == [from |-> from, to |-> to]

getReplacements(projectName) ==
  LET titleCase == toTitleCase(projectName)
      kebabCase == toKebabCase(projectName)
  IN  << Rule("# Next.js Template", "# " \o titleCase),
         Rule("A comprehensive Next.js template with routing, API routes, loading states, and error boundaries.",
              titleCase \o " - Built with Next.js"),
         Rule("\"name\": \"next.js-template-basic\"", "\"name\": \"" \o kebabCase \o "\""),
         Rule("default: \"Next.js Template\"", "default: \"" \o titleCase \o "\""),
         Rule("template: \"%s | Next.js Template\"", "template: \"%s | " \o titleCase \o "\""),
         Rule("keywords: [", "keywords: ["),
         Rule("[\"Next.js\", \"React\", \"TypeScript\", \"Template\"]",
              "[\"Next.js\", \"React\", \"TypeScript\"]"),
         Rule("Next.js Template", titleCase),
         Rule("A comprehensive starter template with routing, API routes, loading\n            states, and error boundaries.",
              "Welcome to " \o titleCase),
         Rule("About page for the Next.js template", "About " \o titleCase),
         Rule("About This Template", "About " \o titleCase),
         Rule("This is a comprehensive Next.js template demonstrating best practices for routing, API routes, loading states, and error handling.",
              titleCase \o " is a Next.js application."),
         Rule("Note: This is a template page. Form inputs are disabled for demonstration.",
              "Configure your application settings here.") >>

(***************************************************************************)
(* The file system: each path holds a file with its content, or none.      *)
(***************************************************************************)
NoFile == [exists |-> FALSE, content |-> ""]
File(text) == [exists |-> TRUE, content |-> text]

(***************************************************************************)
(* scripts/setup.ts: the file patcher.                                     *)
(***************************************************************************)
\* replacements.forEach: the content and the modified flag after the rules
\* from position i on have been applied in order
RECURSIVE ApplyRules(_, _, _, _)
ApplyRules(content, modified, rules, i) ==
  IF i > Len(rules) THEN [content |-> content, modified |-> modified]
  ELSE IF Includes(content, rules[i].from)
       THEN ApplyRules(ReplaceAll(content, rules[i].from, rules[i].to), TRUE, rules, i + 1)
       ELSE ApplyRules(content, modified, rules, i + 1)

\* the patcher without the modified flag: every existing file is written
updateFileWritesAlways(f, replacements) ==
  IF ~f.exists
  THEN [file |-> f, wrote |-> FALSE, ret |-> FALSE, msg |-> "File not found"]
  ELSE LET r == ApplyRules(f.content, FALSE, replacements, 1)
       IN  [file |-> File(r.content), wrote |-> TRUE, ret |-> TRUE, msg |-> "Updated"]

\* the patcher without the existsSync test: an absent file reads as empty
updateFileNoExistsTest(f, replacements) ==
  LET r == ApplyRules(IF f.exists THEN f.content ELSE "", FALSE, replacements, 1)
  IN  IF r.modified
      THEN [file |-> File(r.content), wrote |-> TRUE, ret |-> TRUE, msg |-> "Updated"]
      ELSE [file |-> f, wrote |-> FALSE, ret |-> FALSE, msg |-> "No changes needed"]

\* updateFile(filePath, replacements) on the file f: the file afterwards,
\* whether it was written, the value returned and the status line printed
updateFile(f, replacements) ==
  IF ~f.exists
  THEN [file |-> f, wrote |-> FALSE, ret |-> FALSE, msg |-> "File not found"]
  ELSE LET r == ApplyRules(f.content, FALSE, replacements, 1)
       IN  IF r.modified
           THEN [file |-> File(r.content), wrote |-> TRUE, ret |-> TRUE, msg |-> "Updated"]
           ELSE [file |-> f, wrote |-> FALSE, ret |-> FALSE, msg |-> "No changes needed"]

(***************************************************************************)
(* scripts/setup.ts: the provider injector.                                *)
(***************************************************************************)
GlobalsImport == "import \"./globals.css\";"
UseClient == "\"use client\""

\* the first match of /{\s*children\s*}/ in s: [at, end], at = 0 when none
ChildrenMatch(s) ==
  LET ends(i) == LET j == SkipWs(s, i + 1)
                     k == SkipWs(s, j + 8)
                 IN  IF /\ Ch(s, i) = "{"
                        /\ j + 7 <= Len(s)
                        /\ SubSeq(s, j, j + 7) = "children"
                        /\ k <= Len(s)
                        /\ Ch(s, k) = "}"
                     THEN k ELSE 0
      hits == {i \in 1..Len(s) : ends(i) # 0}
  IN  IF hits = {} THEN [at |-> 0, end |-> 0]
      ELSE [at |-> Min(hits), end |-> ends(Min(hits))]

\* content.replace(/{\s*children\s*}/, wrapped)
WrapChildren(s, wrapped) ==
  LET m == ChildrenMatch(s)
  IN  IF m.at = 0 THEN s
      ELSE SubSeq(s, 1, m.at - 1) \o wrapped \o SubSeq(s, m.end + 1, Len(s))

\* the injector without its presence check of the provider's name: the
\* variant the idempotence guard of lines 326-329 rules out
InjectProviderNoGuard(f, provider, package) ==
  IF ~f.exists
  THEN [file |-> f, wrote |-> FALSE, threw |-> TRUE, msg |-> "ENOENT"]
  ELSE LET importStatement == "import { " \o provider \o " } from \"" \o package \o "\";\n"
           c1 == IF ~Includes(f.content, UseClient)
                 THEN "\"use client\";\n\n" \o f.content ELSE f.content
           c2 == IF ~Includes(c1, importStatement)
                 THEN ReplaceFirst(c1, GlobalsImport, GlobalsImport \o "\n" \o importStatement)
                 ELSE c1
           c3 == WrapChildren(c2, "<" \o provider \o ">\n        {children}\n      </"
                                      \o provider \o ">")
       IN  [file |-> File(c3), wrote |-> TRUE, threw |-> FALSE, msg |-> "Updated layout.tsx"]

\* the injector that puts the import on top of a file without the anchor
InjectProviderImportOnTop(f, provider, package) ==
  IF ~f.exists
  THEN [file |-> f, wrote |-> FALSE, threw |-> TRUE, msg |-> "ENOENT"]
  ELSE IF Includes(f.content, provider)
  THEN [file |-> f, wrote |-> FALSE, threw |-> FALSE, msg |-> "already configured"]
  ELSE LET importStatement == "import { " \o provider \o " } from \"" \o package \o "\";\n"
           c1 == IF ~Includes(f.content, UseClient)
                 THEN "\"use client\";\n\n" \o f.content ELSE f.content
           c2 == IF Includes(c1, GlobalsImport)
                 THEN ReplaceFirst(c1, GlobalsImport, GlobalsImport \o "\n" \o importStatement)
                 ELSE importStatement \o c1
           c3 == WrapChildren(c2, "<" \o provider \o ">\n        {children}\n      </"
                                      \o provider \o ">")
       IN  [file |-> File(c3), wrote |-> TRUE, threw |-> FALSE, msg |-> "Updated layout.tsx"]

\* the body shared by updateLayoutForHeroUI and updateLayoutForChakraUI, which
\* differ in the provider's name and package only; threw: fs.readFileSync
\* raised because the layout is absent (neither function tests for it)
InjectProvider(f, provider, package) ==
  IF ~f.exists
  THEN [file |-> f, wrote |-> FALSE, threw |-> TRUE, msg |-> "ENOENT"]
  ELSE IF Includes(f.content, provider)
  THEN [file |-> f, wrote |-> FALSE, threw |-> FALSE, msg |-> "already configured"]
  ELSE LET importStatement == "import { " \o provider \o " } from \"" \o package \o "\";\n"
           c1 == IF ~Includes(f.content, UseClient)
                 THEN "\"use client\";\n\n" \o f.content ELSE f.content
           c2 == IF ~Includes(c1, importStatement)
                 THEN ReplaceFirst(c1, GlobalsImport, GlobalsImport \o "\n" \o importStatement)
                 ELSE c1
           c3 == WrapChildren(c2, "<" \o provider \o ">\n        {children}\n      </"
                                      \o provider \o ">")
       IN  [file |-> File(c3), wrote |-> TRUE, threw |-> FALSE, msg |-> "Updated layout.tsx"]

updateLayoutForHeroUI(f) == InjectProvider(f, "HeroUIProvider", "@heroui/react")

updateLayoutForChakraUI(f) == InjectProvider(f, "ChakraProvider", "@chakra-ui/react")

(***************************************************************************)
(* scripts/setup.ts: the tailwind configuration patch.                     *)
(***************************************************************************)
\* the first match of /key\s*\[([\s\S]*?)\]/ in s, key being "content:" or
\* "plugins:": [at, open, close], the brackets' positions; at = 0 when none
ArrayMatch(s, key) ==
  LET open(i)  == SkipWs(s, i + Len(key))
      close(i) == IndexOfFrom(s, "]", open(i) + 1)
      ok(i)    == /\ SubSeq(s, i, i + Len(key) - 1) = key
                  /\ open(i) <= Len(s)
                  /\ Ch(s, open(i)) = "["
                  /\ close(i) # 0
      hits == {i \in 1..(Len(s) - Len(key) + 1) : ok(i)}
  IN  IF hits = {} THEN [at |-> 0, open |-> 0, close |-> 0]
      ELSE [at |-> Min(hits), open |-> open(Min(hits)), close |-> close(Min(hits))]

\* the first match of /}\s*;?\s*$/ in s: its start, 0 when none
ClosingBraceMatch(s) ==
  LET tail(i) == LET j == SkipWs(s, i + 1)
                     k == IF j <= Len(s) /\ Ch(s, j) = ";" THEN SkipWs(s, j + 1) ELSE j
                 IN  k = Len(s) + 1
      hits == {i \in 1..Len(s) : Ch(s, i) = "}" /\ tail(i)}
  IN  IF hits = {} THEN 0 ELSE Min(hits)

\* COMPONENT_LIBRARIES[library].tailwindConfig: only heroui has one
tailwindConfig(library) ==
  IF library = "heroui"
  THEN [has |-> TRUE,
        content |-> <<"./node_modules/@heroui/theme/dist/**/*.{js,ts,jsx,tsx}">>,
        plugins |-> <<"require('@heroui/react')">>]
  ELSE [has |-> FALSE, content |-> <<>>, plugins |-> <<>>]

\* items.filter(item => !existing.includes(item))
Missing(items, existing) == SelectSeq(items, LAMBDA item : ~Includes(existing, item))

\* the content array step of updateTailwindConfig
PatchContentArray(s, items) ==
  LET m == ArrayMatch(s, "content:")
      existingContent == SubSeq(s, m.open + 1, m.close - 1)
      new == Missing(items, existingContent)
      newContentItems ==
        Join([i \in 1..Len(new) |-> "    \"" \o new[i] \o "\","], "\n")
  IN  IF m.at = 0 \/ newContentItems = "" THEN s
      ELSE SubSeq(s, 1, m.at - 1)
             \o "content: [\n" \o existingContent \o newContentItems \o "\n  ]"
             \o SubSeq(s, m.close + 1, Len(s))

\* the plugins array step of updateTailwindConfig
PatchPluginsArray(s, plugins) ==
  IF ~Includes(s, "plugins:")
  THEN LET i == ClosingBraceMatch(s)
       IN  IF i = 0 THEN s
           ELSE SubSeq(s, 1, i - 1) \o ",\n  plugins: [" \o Join(plugins, ", ") \o "],\n};"
  ELSE LET m == ArrayMatch(s, "plugins:")
           existingPlugins == SubSeq(s, m.open + 1, m.close - 1)
           newPlugins == Join(Missing(plugins, existingPlugins), ", ")
       IN  IF m.at = 0 \/ newPlugins = "" THEN s
           ELSE SubSeq(s, 1, m.at - 1)
                  \o "plugins: [" \o existingPlugins
                  \o (IF Trim(existingPlugins) # "" THEN ", " ELSE "") \o newPlugins \o "]"
                  \o SubSeq(s, m.close + 1, Len(s))

updateTailwindConfig(f, library) ==
  LET libraryConfig == tailwindConfig(library)
  IN  IF ~f.exists
      THEN [file |-> f, wrote |-> FALSE, msg |-> "tailwind.config.ts not found"]
      ELSE IF ~libraryConfig.has
      THEN [file |-> f, wrote |-> FALSE, msg |-> ""]
      ELSE [file |-> File(PatchPluginsArray(PatchContentArray(f.content, libraryConfig.content),
                                            libraryConfig.plugins)),
            wrote |-> TRUE, msg |-> "Updated tailwind.config.ts"]

(***************************************************************************)
(* scripts/seo-setup.ts: the layout patch.                                 *)
(***************************************************************************)
\* the text tested by the import guard (single quotes) and the two import
\* lines spliced in after the anchor (double quotes)
SeoImportGuard == "from '@/lib/seo.config'"

SeoImports ==
  "import { seoConfig } from \"@/lib/seo.config\";\n"
  \o "import { getOrganizationSchema, getWebsiteSchema } from \"@/lib/structured-data\";"

MetadataOpen == "export const metadata: Metadata = {"

newMetadata ==
  MetadataOpen \o "\n"
  \o "  metadataBase: new URL(seoConfig.siteUrl),\n"
  \o "  title: {\n"
  \o "    default: seoConfig.defaultTitle,\n"
  \o "    template: seoConfig.titleTemplate,\n"
  \o "  },\n"
  \o "  description: seoConfig.description,\n"
  \o "  keywords: seoConfig.keywords,\n"
  \o "  authors: [{ name: seoConfig.author }],\n"
  \o "  creator: seoConfig.author,\n"
  \o "  openGraph: {\n"
  \o "    type: \"website\",\n"
  \o "    locale: seoConfig.locale,\n"
  \o "    url: seoConfig.siteUrl,\n"
  \o "    siteName: seoConfig.siteName,\n"
  \o "    title: seoConfig.defaultTitle,\n"
  \o "    description: seoConfig.description,\n"
  \o "    images: seoConfig.openGraph.images,\n"
  \o "  },\n"
  \o "  twitter: {\n"
  \o "    card: \"summary_large_image\",\n"
  \o "    title: seoConfig.defaultTitle,\n"
  \o "    description: seoConfig.description,\n"
  \o "    site: seoConfig.twitter.site,\n"
  \o "    creator: seoConfig.twitter.creator,\n"
  \o "    images: seoConfig.openGraph.images.map(img => img.url),\n"
  \o "  },\n"
  \o "  robots: {\n"
  \o "    index: true,\n"
  \o "    follow: true,\n"
  \o "    googleBot: {\n"
  \o "      index: true,\n"
  \o "      follow: true,\n"
  \o "      \"max-video-preview\": -1,\n"
  \o "      \"max-image-preview\": \"large\",\n"
  \o "      \"max-snippet\": -1,\n"
  \o "    },\n"
  \o "  },\n"
  \o "  verification: {\n"
  \o "    google: seoConfig.verification.google,\n"
  \o "    yandex: seoConfig.verification.yandex,\n"
  \o "    // bing: seoConfig.verification.bing, // Uncomment when you have the code\n"
  \o "  },\n"
  \o "};"

JsonLdGuard == "getOrganizationSchema()"

JsonLdScript ==
  "{children}\n"
  \o "        <script\n"
  \o "          type=\"application/ld+json\"\n"
  \o "          dangerouslySetInnerHTML={{\n"
  \o "            __html: JSON.stringify([\n"
  \o "              getOrganizationSchema(),\n"
  \o "              getWebsiteSchema(),\n"
  \o "            ]),\n"
  \o "          }}\n"
  \o "        />"

\* the first match of /export const metadata: Metadata = \{[\s\S]*?\};/:
\* [at, end], from the leftmost opening text that a "};" follows to the
\* first "};" after it; at = 0 when none
MetadataMatch(s) ==
  LET close(i) == IndexOfFrom(s, "};", i + Len(MetadataOpen))
      hits == {i \in 1..(Len(s) - Len(MetadataOpen) + 1) :
                 SubSeq(s, i, i + Len(MetadataOpen) - 1) = MetadataOpen /\ close(i) # 0}
  IN  IF hits = {} THEN [at |-> 0, end |-> 0]
      ELSE [at |-> Min(hits), end |-> close(Min(hits)) + 1]

ReplaceMetadata(s) ==
  LET m == MetadataMatch(s)
  IN  IF m.at = 0 THEN s
      ELSE SubSeq(s, 1, m.at - 1) \o newMetadata \o SubSeq(s, m.end + 1, Len(s))

\* the SEO layout patch without the existsSync test of lines 533-536: an
\* absent layout is patched like an empty one
updateLayoutUnguarded(f) ==
  LET c1 == IF ~Includes(f.content, SeoImportGuard)
            THEN ReplaceFirst(f.content, GlobalsImport,
                              GlobalsImport \o "\n" \o SeoImports)
            ELSE f.content
      c2 == ReplaceMetadata(c1)
      c3 == IF ~Includes(c2, JsonLdGuard)
            THEN ReplaceFirst(c2, "{children}", JsonLdScript)
            ELSE c2
  IN  [file |-> File(c3), wrote |-> TRUE, msg |-> "Updated: src/app/layout.tsx"]

\* updateLayout(config) of the SEO script; the patch does not read config
updateLayout(f) ==
  IF ~f.exists
  THEN [file |-> f, wrote |-> FALSE, msg |-> "layout.tsx not found"]
  ELSE LET c1 == IF ~Includes(f.content, SeoImportGuard)
                 THEN ReplaceFirst(f.content, GlobalsImport,
                                   GlobalsImport \o "\n" \o SeoImports)
                 ELSE f.content
           c2 == ReplaceMetadata(c1)
           c3 == IF ~Includes(c2, JsonLdGuard)
                 THEN ReplaceFirst(c2, "{children}", JsonLdScript)
                 ELSE c2
       IN  [file |-> File(c3), wrote |-> TRUE, msg |-> "Updated: src/app/layout.tsx"]

(***************************************************************************)
(* JavaScript values, as far as a parsed SEO template holds them: a type   *)
(* tag with a string, a list or an object payload.                         *)
(***************************************************************************)
NoSocial == [k \in {} |-> ""]

Undef    == [t |-> "undefined", s |-> "", a |-> <<>>, o |-> NoSocial]
Null     == [t |-> "null", s |-> "", a |-> <<>>, o |-> NoSocial]
Str(v)   == [t |-> "string", s |-> v, a |-> <<>>, o |-> NoSocial]
Num(v)   == [t |-> "number", s |-> v, a |-> <<>>, o |-> NoSocial]
Arr(v)   == [t |-> "array", s |-> "", a |-> v, o |-> NoSocial]
Obj(v)   == [t |-> "object", s |-> "", a |-> <<>>, o |-> v]

\* ToBoolean
Truthy(v) ==
  CASE v.t = "string" -> v.s # ""
    [] v.t = "number" -> v.s # "0"
    [] v.t \in {"array", "object"} -> TRUE
    [] OTHER -> FALSE

\* typeof v === "string"
IsString(v) == v.t = "string"

\* `${v}` for the values the generators interpolate
Render(v) == IF v.t \in {"string", "number"} THEN v.s ELSE ""

\* obj.key of a social object: the empty string stands for undefined, which
\* every reader of the field treats alike (v ? .. : "" and v || "")
SocialField(social, key) ==
  IF social.t = "object" /\ key \in DOMAIN social.o THEN social.o[key] ELSE ""

SeoFields == {"siteName", "siteTagline", "siteUrl", "author", "locale",
              "businessType", "keywords", "social", "_comments", "$schema"}

\* an object with the given fields, every other field undefined
Object(fields) == [k \in SeoFields |-> IF k \in DOMAIN fields THEN fields[k] ELSE Undef]

(***************************************************************************)
(* scripts/seo-setup.ts: validation and the two producers of a SeoConfig.  *)
(***************************************************************************)
BUSINESS_TYPES == <<"blog", "ecommerce", "portfolio", "saas", "corporate", "other">>

validBusinessTypes == {BUSINESS_TYPES[i] : i \in 1..Len(BUSINESS_TYPES)}

RequiredStrings == <<"siteName", "siteTagline", "siteUrl", "author", "businessType">>

\* the collection that stops at the first violation
SeoErrorsFirstOnly(config) ==
  LET required ==
        SelectSeq(RequiredStrings,
                  LAMBDA k : ~Truthy(config[k]) \/ ~IsString(config[k]))
      bt == config["businessType"]
      all == [i \in 1..Len(required) |-> required[i] \o " is required and must be a string"]
             \o (IF Truthy(bt) /\ ~(IsString(bt) /\ bt.s \in validBusinessTypes)
                 THEN <<"businessType must be one of: " \o Join(BUSINESS_TYPES, ", ")>>
                 ELSE <<>>)
             \o (IF config["keywords"].t # "array"
                 THEN <<"keywords must be an array">> ELSE <<>>)
  IN  SubSeq(all, 1, 1)

\* the errors validateSeoConfig collects, in the order it pushes them
SeoErrors(config) ==
  LET required ==
        SelectSeq(RequiredStrings,
                  LAMBDA k : ~Truthy(config[k]) \/ ~IsString(config[k]))
      bt == config["businessType"]
  IN  [i \in 1..Len(required) |-> required[i] \o " is required and must be a string"]
      \o (IF Truthy(bt) /\ ~(IsString(bt) /\ bt.s \in validBusinessTypes)
          THEN <<"businessType must be one of: " \o Join(BUSINESS_TYPES, ", ")>>
          ELSE <<>>)
      \o (IF config["keywords"].t # "array"
          THEN <<"keywords must be an array">> ELSE <<>>)

\* the gate without the test of keywords
validateSeoConfigNoArrayTest(config) ==
  /\ \A i \in 1..Len(RequiredStrings) :
        Truthy(config[RequiredStrings[i]]) /\ IsString(config[RequiredStrings[i]])
  /\ config["businessType"].s \in validBusinessTypes

\* the gate without the test of businessType against validBusinessTypes
validateSeoConfigNoEnum(config) ==
  /\ \A i \in 1..Len(RequiredStrings) :
        Truthy(config[RequiredStrings[i]]) /\ IsString(config[RequiredStrings[i]])
  /\ config["keywords"].t = "array"

validateSeoConfig(config) == SeoErrors(config) = <<>>

\* A template file as the script meets it: absent, or present with the
\* result JSON.parse gives for its text: a SyntaxError, null, a value that
\* is not an object, or an object.
NoTemplate      == [exists |-> FALSE, json |-> "none", fields |-> Object(<<>>)]
BadJson         == [exists |-> TRUE, json |-> "error", fields |-> Object(<<>>)]
JsonNull        == [exists |-> TRUE, json |-> "null", fields |-> Object(<<>>)]
JsonScalar      == [exists |-> TRUE, json |-> "scalar", fields |-> Object(<<>>)]
JsonObject(fields) == [exists |-> TRUE, json |-> "object", fields |-> Object(fields)]

\* threw: an error left loadTemplateFile uncaught
NoConfig == [ok |-> FALSE, config |-> Object(<<>>), errors |-> <<>>, msg |-> "",
             threw |-> FALSE]

\* the loader without the validateSeoConfig gate of lines 125-127
loadTemplateFileUnvalidated(t) ==
  IF ~t.exists
  THEN [NoConfig EXCEPT !.msg = "Template file not found"]
  ELSE IF t.json \in {"error", "null"}
  THEN [NoConfig EXCEPT !.msg = "Error loading template file"]
  ELSE [ok |-> TRUE,
        config |-> [t.fields EXCEPT
                      !["_comments"] = Undef, !["$schema"] = Undef,
                      !["locale"] = IF Truthy(@) THEN @ ELSE Str("en"),
                      !["social"] = IF Truthy(@) THEN @ ELSE Obj(NoSocial)],
        errors |-> <<>>, msg |-> "", threw |-> FALSE]

\* the loader without its try block: the SyntaxError of JSON.parse and the
\* TypeError of delete on null leave the function
loadTemplateFileUncaught(t) ==
  IF ~t.exists
  THEN [NoConfig EXCEPT !.msg = "Template file not found"]
  ELSE IF t.json \in {"error", "null"}
  THEN [NoConfig EXCEPT !.threw = TRUE]
  ELSE LET config == [t.fields EXCEPT !["_comments"] = Undef, !["$schema"] = Undef]
       IN  IF ~validateSeoConfig(config)
           THEN [NoConfig EXCEPT !.errors = SeoErrors(config),
                                 !.msg = "Template validation errors"]
           ELSE [ok |-> TRUE,
                 config |-> [config EXCEPT
                               !["locale"] = IF Truthy(@) THEN @ ELSE Str("en"),
                               !["social"] = IF Truthy(@) THEN @ ELSE Obj(NoSocial)],
                 errors |-> <<>>, msg |-> "", threw |-> FALSE]

\* the loader without the defaults of lines 130-133
loadTemplateFileNoDefaults(t) ==
  IF ~t.exists
  THEN [NoConfig EXCEPT !.msg = "Template file not found"]
  ELSE IF t.json \in {"error", "null"}
  THEN [NoConfig EXCEPT !.msg = "Error loading template file"]
  ELSE LET config == [t.fields EXCEPT !["_comments"] = Undef, !["$schema"] = Undef]
       IN  IF ~validateSeoConfig(config)
           THEN [NoConfig EXCEPT !.errors = SeoErrors(config),
                                 !.msg = "Template validation errors"]
           ELSE [ok |-> TRUE, config |-> config,
                 errors |-> <<>>, msg |-> "", threw |-> FALSE]

\* loadTemplateFile(filePath) on the template file t: null (ok = FALSE) or
\* the config, with the validation errors and the message printed
loadTemplateFile(t) ==
  IF ~t.exists
  THEN [NoConfig EXCEPT !.msg = "Template file not found"]
  ELSE IF t.json = "error"
  THEN [NoConfig EXCEPT !.msg = "Error loading template file"]
  \* delete on null raises a TypeError, caught like the SyntaxError
  ELSE IF t.json = "null"
  THEN [NoConfig EXCEPT !.msg = "Error loading template file"]
  ELSE LET config == [t.fields EXCEPT !["_comments"] = Undef, !["$schema"] = Undef]
       IN  IF ~validateSeoConfig(config)
           THEN [NoConfig EXCEPT !.errors = SeoErrors(config),
                                 !.msg = "Template validation errors"]
           ELSE [ok |-> TRUE,
                 config |-> [config EXCEPT
                               !["locale"] = IF Truthy(@) THEN @ ELSE Str("en"),
                               !["social"] = IF Truthy(@) THEN @ ELSE Obj(NoSocial)],
                 errors |-> <<>>, msg |-> "", threw |-> FALSE]

\* parseInt(s): leading whitespace, an optional sign, then the longest run
\* of decimal digits (hexadecimal after 0x); NaN when there is no digit
HexDigits == "0123456789abcdef"

RECURSIVE DigitsValue(_, _, _, _)
DigitsValue(s, i, radix, acc) ==
  IF i <= Len(s) /\ InStr(LowerCh(Ch(s, i)), SubSeq(HexDigits, 1, radix))
  THEN DigitsValue(s, i + 1, radix,
                   acc * radix + PosIn(LowerCh(Ch(s, i)), HexDigits) - 1)
  ELSE acc

parseInt(s) ==
  LET i0    == SkipWs(s, 1)
      neg   == i0 <= Len(s) /\ Ch(s, i0) = "-"
      i1    == IF i0 <= Len(s) /\ Ch(s, i0) \in {"+", "-"} THEN i0 + 1 ELSE i0
      hex   == i1 + 1 <= Len(s) /\ SubSeq(s, i1, i1 + 1) \in {"0x", "0X"}
      i2    == IF hex THEN i1 + 2 ELSE i1
      radix == IF hex THEN 16 ELSE 10
      has   == i2 <= Len(s) /\ InStr(LowerCh(Ch(s, i2)), SubSeq(HexDigits, 1, radix))
      n     == DigitsValue(s, i2, radix, 0)
  IN  [nan |-> ~has, n |-> IF ~has THEN 0 ELSE IF neg THEN 0 - n ELSE n]

\* keywordsInput.split(",")
RECURSIVE SplitComma(_)
SplitComma(s) ==
  LET i == IndexOfFrom(s, ",", 1)
  IN  IF i = 0 THEN <<s>>
      ELSE <<SubSeq(s, 1, i - 1)>> \o SplitComma(SubSeq(s, i + 1, Len(s)))

\* .split(",").map((k) => k.trim()).filter((k) => k.length > 0)
ParseKeywords(keywordsInput) ==
  LET parts == SplitComma(keywordsInput)
  IN  SelectSeq([i \in 1..Len(parts) |-> Trim(parts[i])], LAMBDA k : k # "")

\* siteUrl.replace(/\/$/, "")
StripTrailingSlash(url) ==
  IF url # "" /\ Ch(url, Len(url)) = "/" THEN SubSeq(url, 1, Len(url) - 1) ELSE url

\* getProjectName(): the name field of package.json, "my-app" when the
\* file is absent, cannot be read as an object or holds no name. The model
\* reads the field as the text between "name": " and the next quote.
getProjectName(pkg) ==
  LET key == "\"name\": \""
      i   == IF pkg.exists THEN IndexOfFrom(pkg.content, key, 1) ELSE 0
      j   == IF i = 0 THEN 0 ELSE IndexOfFrom(pkg.content, "\"", i + Len(key))
      nm  == IF j = 0 THEN "" ELSE SubSeq(pkg.content, i + Len(key), j - 1)
  IN  IF nm = "" THEN "my-app" ELSE nm

\* ...(v && { key: v }) for the three social answers
SocialOf(twitter, facebook, linkedin) ==
  LET given == [k \in {"twitter", "facebook", "linkedin"} |->
                  CASE k = "twitter" -> twitter
                    [] k = "facebook" -> facebook
                    [] OTHER -> linkedin]
  IN  [k \in {x \in DOMAIN given : given[x] # ""} |-> given[k]]

\* the object collectSeoInfo returns for the (trimmed) answers
collectedConfig(a) ==
  Object([siteName     |-> Str(a.siteName),
          siteTagline  |-> Str(a.siteTagline),
          siteUrl      |-> Str(StripTrailingSlash(a.siteUrl)),
          author       |-> Str(a.author),
          locale       |-> Str(a.locale),
          businessType |-> Str(a.businessType),
          keywords     |-> Arr(ParseKeywords(a.keywords)),
          social       |-> Obj(SocialOf(a.twitter, a.facebook, a.linkedin))])

(***************************************************************************)
(* scripts/seo-setup.ts: the generators. Each renders a file from the      *)
(* config; the lines given here are the ones that depend on the config,    *)
(* in the order of the template, each run of static lines between them     *)
(* being left out.                                                         *)
(***************************************************************************)
Q(text) == "\"" \o text \o "\""

\* JSON.stringify of an array of strings
StringifyList(items) ==
  "[" \o Join([i \in 1..Len(items) |-> Q(items[i])], ",") \o "]"

generateSeoConfig(c) ==
  LET twitter == SocialField(c["social"], "twitter")
      handle  == IF twitter # "" THEN "@" \o twitter ELSE ""
  IN  "export const seoConfig = {\n"
      \o "  siteName: " \o Q(Render(c["siteName"])) \o ",\n"
      \o "  siteTagline: " \o Q(Render(c["siteTagline"])) \o ",\n"
      \o "  siteUrl: " \o Q(Render(c["siteUrl"])) \o ",\n"
      \o "  author: " \o Q(Render(c["author"])) \o ",\n"
      \o "  locale: " \o Q(Render(c["locale"])) \o ",\n"
      \o "  businessType: " \o Q(Render(c["businessType"])) \o ",\n"
      \o "  keywords: " \o StringifyList(c["keywords"].a) \o ",\n"
      \o "  defaultTitle: " \o Q(Render(c["siteName"])) \o ",\n"
      \o "  titleTemplate: " \o Q("%s | " \o Render(c["siteName"])) \o ",\n"
      \o "  description: " \o Q(Render(c["siteTagline"])) \o ",\n"
      \o "        url: " \o Q(Render(c["siteUrl"]) \o "/og/default.png") \o ",\n"
      \o "    site: " \o Q(handle) \o ",\n"
      \o "    creator: " \o Q(handle) \o ",\n"
      \o "    twitter: " \o Q(twitter) \o ",\n"
      \o "    facebook: " \o Q(SocialField(c["social"], "facebook")) \o ",\n"
      \o "    linkedin: " \o Q(SocialField(c["social"], "linkedin")) \o ",\n"
      \o "} as const;\n"

generateMetadataHelper ==
  "import type { Metadata } from \"next\";\n"
  \o "import { seoConfig } from \"./seo.config\";\n"
  \o "export function createMetadata(options: MetadataOptions = {}): Metadata {\n"
  \o "export function generatePageTitle(title: string): string {\n"

ArticleSchema ==
  "\n// Article Schema (for blog posts)\n"
  \o "export function getArticleSchema(article: {\n"
  \o "    \"@type\": \"Article\",\n"
  \o "}\n"

generateStructuredData(c) ==
  LET twitter  == SocialField(c["social"], "twitter")
      facebook == SocialField(c["social"], "facebook")
      linkedin == SocialField(c["social"], "linkedin")
  IN  "import { seoConfig } from \"./seo.config\";\n"
      \o "export function getOrganizationSchema() {\n"
      \o "    \"@type\": "
      \o Q(IF Render(c["businessType"]) = "corporate" THEN "Organization" ELSE "WebSite")
      \o ",\n"
      \o (IF twitter # "" \/ facebook # "" \/ linkedin # ""
          THEN "sameAs: [\n"
               \o (IF twitter # "" THEN Q("https://twitter.com/" \o twitter) \o "," ELSE "") \o "\n"
               \o (IF facebook # "" THEN Q(facebook) \o "," ELSE "") \o "\n"
               \o (IF linkedin # "" THEN Q(linkedin) \o "," ELSE "") \o "\n"
               \o "    ].filter(Boolean),"
          ELSE "")
      \o "\nexport function getWebsiteSchema() {\n"
      \o "export function getBreadcrumbSchema(items: Array<{ name: string; url: string }>) {\n"
      \o (IF Render(c["businessType"]) = "blog" THEN ArticleSchema ELSE "")
      \o "export function JsonLd({ data }: { data: Record<string, any> }) {\n"

\* the sitemap with a change frequency that does not look at businessType
generateSitemapAlwaysWeekly(c) ==
  "import { MetadataRoute } from \"next\";\n\n"
  \o "export default function sitemap(): MetadataRoute.Sitemap {\n"
  \o "  const baseUrl = " \o Q(Render(c["siteUrl"])) \o ";\n"
  \o "    changeFrequency: " \o Q("weekly") \o " as const,\n"
  \o "  return routes;\n}\n"

generateSitemap(c) ==
  "import { MetadataRoute } from \"next\";\n\n"
  \o "export default function sitemap(): MetadataRoute.Sitemap {\n"
  \o "  const baseUrl = " \o Q(Render(c["siteUrl"])) \o ";\n"
  \o "    changeFrequency: "
  \o Q(IF Render(c["businessType"]) = "blog" THEN "daily" ELSE "weekly") \o " as const,\n"
  \o "  return routes;\n}\n"

generateRobots(c) ==
  "import { MetadataRoute } from \"next\";\n\n"
  \o "export default function robots(): MetadataRoute.Robots {\n"
  \o "  return {\n"
  \o "    rules: {\n"
  \o "      userAgent: \"*\",\n"
  \o "      allow: \"/\",\n"
  \o "      disallow: [\"/api/\", \"/admin/\"],\n"
  \o "    },\n"
  \o "    sitemap: " \o Q(Render(c["siteUrl"]) \o "/sitemap.xml") \o ",\n"
  \o "  };\n}\n"

generateManifest(c) ==
  "export default function manifest(): MetadataRoute.Manifest {\n"
  \o "    name: " \o Q(Render(c["siteName"])) \o ",\n"
  \o "    short_name: " \o Q(Render(c["siteName"])) \o ",\n"
  \o "    description: " \o Q(Render(c["siteTagline"])) \o ",\n"
  \o "    start_url: \"/\",\n"

BlogGuide(c) ==
  "\n## Blog Post SEO\n"
  \o "  authors: [" \o Q(Render(c["author"])) \o "],\n"
  \o "    author: " \o Q(Render(c["author"])) \o ",\n"

generateSeoGuide(c) ==
  "# SEO Setup Guide\n"
  \o "- **Production URL**: " \o Render(c["siteUrl"]) \o "\n"
  \o "- **Sitemap**: " \o Render(c["siteUrl"]) \o "/sitemap.xml\n"
  \o "- **Robots.txt**: " \o Render(c["siteUrl"]) \o "/robots.txt\n"
  \o (IF Render(c["businessType"]) = "blog" THEN BlogGuide(c) ELSE "")
  \o "2. Add your property: " \o Render(c["siteUrl"]) \o "\n"
  \o "Generated by SEO Setup Script\n"

(***************************************************************************)
(* src/app/api/data/route.ts: the items of the in-memory store, the bodies *)
(* and parameters of requests, and the responses.                          *)
(***************************************************************************)
ApiFields == {"id", "name", "description", "extra"}

\* an item or a JSON body with the given fields, every other field undefined
ApiObject(fields) == [k \in ApiFields |-> IF k \in DOMAIN fields THEN fields[k] ELSE Undef]

\* String(n) of an integer
RECURSIVE ToDecimal(_)
ToDecimal(n) ==
  IF n < 0 THEN "-" \o ToDecimal(0 - n)
  ELSE IF n < 10 THEN SubSeq("0123456789", n + 1, n + 1)
  ELSE ToDecimal(n \div 10) \o SubSeq("0123456789", (n % 10) + 1, (n % 10) + 1)

\* the number n as a JavaScript value
NumOf(n) == Num(ToDecimal(n))

\* const data = [...]: the store when the module is loaded
SeedData ==
  << ApiObject([id |-> NumOf(1), name |-> Str("Item 1"), description |-> Str("First item")]),
     ApiObject([id |-> NumOf(2), name |-> Str("Item 2"), description |-> Str("Second item")]),
     ApiObject([id |-> NumOf(3), name |-> Str("Item 3"), description |-> Str("Third item")]) >>

\* what request.json() makes of the body: it rejects ("error"), or resolves
\* to null, to a value that is no object, or to an object
BadBody      == [json |-> "error", fields |-> ApiObject(<<>>)]
NullBody     == [json |-> "null", fields |-> ApiObject(<<>>)]
ScalarBody   == [json |-> "scalar", fields |-> ApiObject(<<>>)]
Body(fields) == [json |-> "object", fields |-> ApiObject(fields)]

\* searchParams.get("id"): null without the parameter, else its text
NoParam  == [given |-> FALSE, v |-> ""]
Param(v) == [given |-> TRUE, v |-> v]

\* a NextRequest: the method, the id parameter of the URL and the body
NoRequest == [method |-> "", id |-> NoParam, body |-> BadBody]
Request(method, id, body) == [method |-> method, id |-> id, body |-> body]

\* NextResponse.json(..): the status, the error or message text, and the
\* items of the payload
NoResponse == [status |-> 0, text |-> "", items |-> <<>>]
Json(status, text, items) == [status |-> status, text |-> text, items |-> items]

(***************************************************************************)
(* The state of a run.                                                     *)
(***************************************************************************)
VARIABLES
  script,    \* the entry point: "setup", "seo", "api" (the route handlers), or
             \* "fn", "seofn" (one function called directly)
  pc,        \* the position of the run in its script
  argv,      \* the command-line argument, "" when none is given
  config,    \* setup.ts's config object: projectName, componentLibrary ("" is null)
  seo,       \* seo-setup.ts's config variable of runSeoSetup: [ok, config]
  draft,     \* the answers collectSeoInfo has gathered so far
  consulted, \* the SEO input sources consulted so far, in order
  fs,        \* the working tree: path -> file
  dirs,      \* the directories ensureDirectoryExists has created
  cmds,      \* the child processes run so far: [cmd, ok]
  out,       \* the messages printed so far
  writes,    \* the paths written so far (fs.writeFileSync), in order
  exitCode,  \* -1 while the process runs, then its exit code
  retries,   \* rejected answers at the current numbered menu
  idx,       \* the position of the shadcn component loop
  typed,     \* the last line the user typed at a prompt, as typed
  hist,      \* script "fn": the file before the first call and after each call
  data,      \* route.ts's data array: the items of the store, in order
  request,   \* the last request on /api/data: method, id parameter, body
  response   \* the response to it

vars == <<script, pc, argv, config, seo, draft, consulted, fs, dirs, cmds, out,
          writes, exitCode, retries, idx, typed, hist, data, request, response>>

LayoutPath == "src/app/layout.tsx"
TailwindPath == "tailwind.config.ts"

filesToUpdate ==
  <<"README.md", "package.json", "src/app/layout.tsx", "src/app/page.tsx",
    "src/app/about/page.tsx", "src/app/dashboard/settings/page.tsx">>

GeneratedPaths ==
  <<"src/lib/seo.config.ts", "src/lib/metadata-helper.ts", "src/lib/structured-data.tsx",
    "src/app/sitemap.ts", "src/app/robots.ts", "src/app/manifest.ts">>

GuidePath == "docs/SEO_GUIDE.md"

Paths == {filesToUpdate[i] : i \in 1..Len(filesToUpdate)}
           \cup {GeneratedPaths[i] : i \in 1..Len(GeneratedPaths)}
           \cup {TailwindPath, GuidePath}

\* path.dirname
Dirname(path) ==
  CASE startsWith(path, "src/lib/") -> "src/lib"
    [] startsWith(path, "src/app/dashboard/settings/") -> "src/app/dashboard/settings"
    [] startsWith(path, "src/app/about/") -> "src/app/about"
    [] startsWith(path, "src/app/") -> "src/app"
    [] startsWith(path, "docs/") -> "docs"
    [] OTHER -> "."

\* the directories that hold the files of a tree
DirsOf(tree) == {"."} \cup {Dirname(p) : p \in {q \in Paths : tree[q].exists}}

(***************************************************************************)
(* The working trees, arguments and answers the model draws from.          *)
(***************************************************************************)
ReadmeSample ==
  "# Next.js Template\n\nA comprehensive Next.js template with routing, API routes, loading states, and error boundaries.\n\n## Features\n"

PackageSample == "{\n  \"name\": \"next.js-template-basic\",\n  \"version\": \"0.1.0\"\n}\n"

PageSample ==
  "          <h1 className=\"text-5xl font-bold\">Next.js Template</h1>\n"
  \o "          <p className=\"text-xl text-gray-600 dark:text-gray-400\">\n"
  \o "            A comprehensive starter template with routing, API routes, loading\n"
  \o "            states, and error boundaries.\n"
  \o "          </p>\n"

AboutSample ==
  "export const metadata: Metadata = {\n  title: \"About\",\n"
  \o "  description: \"About page for the Next.js template\",\n};\n"
  \o "    title: \"About This Template\",\n    description:\n"
  \o "      \"This is a comprehensive Next.js template demonstrating best practices for routing, API routes, loading states, and error handling.\",\n"

SettingsSample ==
  "        Note: This is a template page. Form inputs are disabled for demonstration.\n"

\* a root layout as the rules of getReplacements and the patchers expect it
LayoutSample ==
  "import type { Metadata } from \"next\";\nimport \"./globals.css\";\n\n"
  \o "export const metadata: Metadata = {\n  title: {\n"
  \o "    default: \"Next.js Template\",\n    template: \"%s | Next.js Template\",\n  },\n"
  \o "  keywords: [\"Next.js\", \"React\", \"TypeScript\", \"Template\"],\n};\n\n"
  \o "export default function RootLayout({\n  children,\n}: Readonly<{\n"
  \o "  children: React.ReactNode;\n}>) {\n  return (\n    <html lang=\"en\">\n"
  \o "      <body>{children}</body>\n    </html>\n  );\n}\n"

\* a root layout without the globals.css import and without a metadata object
BareLayoutSample ==
  "export default function RootLayout({\n  children,\n}) {\n"
  \o "  return <body>{ children }</body>;\n}\n"

TailwindSample ==
  "export default {\n  content: [\n    \"./src/**/*.{js,ts,jsx,tsx,mdx}\",\n  ],\n  theme: {},\n};\n"

TailwindPluginsSample ==
  "export default {\n  content: [\"./src/**/*.tsx\"],\n  plugins: [],\n};\n"

TemplateTree ==
  [p \in Paths |->
     CASE p = "README.md" -> File(ReadmeSample)
       [] p = "package.json" -> File(PackageSample)
       [] p = "src/app/page.tsx" -> File(PageSample)
       [] p = "src/app/about/page.tsx" -> File(AboutSample)
       [] p = "src/app/dashboard/settings/page.tsx" -> File(SettingsSample)
       [] OTHER -> NoFile]

EmptyTree == [p \in Paths |-> NoFile]

\* the patched pages of the tree: all there, the README gone, all gone
PageTrees ==
  {TemplateTree, [TemplateTree EXCEPT !["README.md"] = NoFile], EmptyTree}

LayoutFiles == {NoFile, File(LayoutSample), File(BareLayoutSample)}

TailwindFiles == {NoFile, File(TailwindSample), File(TailwindPluginsSample)}

SetupTrees ==
  {[t EXCEPT ![LayoutPath] = l, ![TailwindPath] = w] :
     t \in PageTrees, l \in LayoutFiles, w \in TailwindFiles}

\* process.argv[2] of the customization script
SetupArgs == {"", "Acme Store", "a\tb", "bad!", "  ", "About This Template"}

\* what the user types at "Enter your project name: "
NameAnswers == {"", " my-cool_app ", "My Cool App!", "next"}

\* what the user types at "Enter your choice (1-4): "
ChoiceAnswers == {"1", "2", " 3", "4", "0", "5", "", "x", "2nd"}

(***************************************************************************)
(* scripts/setup.ts: the component library registry.                       *)
(***************************************************************************)
LibraryKeys == <<"none", "heroui", "shadcn", "chakra">>

COMPONENT_LIBRARIES(key) ==
  CASE key = "heroui" ->
         [name |-> "Hero UI", packages |-> <<"@heroui/react", "framer-motion">>,
          devPackages |-> <<>>, customSetup |-> TRUE, setupInstructions |-> TRUE]
    [] key = "shadcn" ->
         [name |-> "shadcn/ui", packages |-> <<>>,
          devPackages |-> <<>>, customSetup |-> TRUE, setupInstructions |-> TRUE]
    [] key = "chakra" ->
         [name |-> "Chakra UI",
          packages |-> <<"@chakra-ui/react", "@emotion/react", "@emotion/styled", "framer-motion">>,
          devPackages |-> <<>>, customSetup |-> TRUE, setupInstructions |-> TRUE]
    [] OTHER ->
         [name |-> "None", packages |-> <<>>,
          devPackages |-> <<>>, customSetup |-> FALSE, setupInstructions |-> FALSE]

\* the components the shadcn custom setup adds, in order
ShadcnComponents == <<"button", "card", "input", "label", "dialog", "dropdown-menu">>

\* the command line installPackages runs
InstallCommand(packages, isDev) ==
  "npm install" \o (IF isDev THEN " --save-dev" ELSE "") \o " " \o Join(packages, " ")

(***************************************************************************)
(* scripts/setup.ts: the customization run.                                *)
(***************************************************************************)
\* /^[a-zA-Z0-9\s_-]+$/.test(name)
NameCharsOk(name) ==
  /\ name # ""
  /\ \A i \in 1..Len(name) :
       LET c == Ch(name, i)
       IN  IsLetter(c) \/ IsDigit(c) \/ IsWs(c) \/ c \in {"_", "-"}

isValidProjectName(name) ==
  IF name = "" \/ Trim(name) = "" THEN FALSE ELSE NameCharsOk(name)

\* process.exit(code), and the handler of setup().catch / runSeoSetup().catch
Exit(code) == pc' = "exited" /\ exitCode' = code

Say(msg) == out' = Append(out, msg)

\* the for loop of setup() over filesToUpdate, from position i on
RECURSIVE PatchAll(_, _, _)
PatchAll(tree, replacements, i) ==
  IF i > Len(filesToUpdate) THEN [fs |-> tree, msgs |-> <<>>, written |-> <<>>]
  ELSE LET path == filesToUpdate[i]
           r    == updateFile(tree[path], replacements)
           rest == PatchAll([tree EXCEPT ![path] = r.file], replacements, i + 1)
       IN  [fs |-> rest.fs,
            msgs |-> <<r.msg \o ": " \o path>> \o rest.msgs,
            written |-> (IF r.wrote THEN <<path>> ELSE <<>>) \o rest.written]

\* setup(): the project name from argv or the prompt, and its validation
GetProjectName ==
  /\ script = "setup" /\ pc = "start"
  /\ \E answer \in NameAnswers :
       LET projectName == IF argv # "" THEN argv ELSE Trim(answer)
       IN
       /\ IF ~isValidProjectName(projectName)
          THEN /\ Say("Error: Invalid project name")
               /\ Exit(1)
               /\ UNCHANGED config
          ELSE /\ config' = [config EXCEPT !.projectName = projectName]
               /\ Say("Setting up project: " \o projectName)
               /\ pc' = "patch"
               /\ UNCHANGED exitCode
       /\ typed' = IF argv # "" THEN typed ELSE answer
  /\ UNCHANGED <<data, request, response, script, argv, seo, draft, consulted, fs, dirs, cmds, writes,
                 retries, idx, hist>>

\* setup(): getReplacements and the loop of updateFile over filesToUpdate
PatchFiles ==
  /\ script = "setup" /\ pc = "patch"
  /\ LET r == PatchAll(fs, getReplacements(config.projectName), 1)
     IN  /\ fs' = r.fs
         /\ writes' = writes \o r.written
         /\ out' = out \o r.msgs \o <<"Updated file(s) with your project name">>
  /\ pc' = "select"
  /\ UNCHANGED <<data, request, response, script, argv, config, seo, draft, consulted, dirs, cmds,
                 exitCode, retries, idx, hist, typed>>

\* selectComponentLibrary(): the menu, printed once
ShowLibraryMenu ==
  /\ script = "setup" /\ pc = "select"
  /\ Say("Select a Component Library")
  /\ pc' = "choose"
  /\ retries' = 0
  /\ UNCHANGED <<data, request, response, script, argv, config, seo, draft, consulted, fs, dirs, cmds,
                 writes, exitCode, idx, hist, typed>>

\* the loop with a bad answer sent back to the head of the function, where
\* the menu is printed
ChooseLibraryReprintsMenu ==
  /\ script = "setup" /\ pc = "choose"
  /\ \E answer \in ChoiceAnswers :
       LET choice == parseInt(Trim(answer))
       IN
       /\ typed' = answer
       /\  IF ~choice.nan /\ choice.n >= 1 /\ choice.n <= Len(LibraryKeys)
           THEN /\ config' = [config EXCEPT !.componentLibrary = LibraryKeys[choice.n]]
                /\ pc' = "npmci"
                /\ UNCHANGED <<out, retries>>
           ELSE /\ retries < MaxRetries
                /\ Say("Invalid choice. Please enter a number between 1 and 4.")
                /\ retries' = retries + 1
                /\ pc' = "select"
                /\ UNCHANGED config
  /\ UNCHANGED <<data, request, response, script, argv, seo, draft, consulted, fs, dirs, cmds, writes,
                 exitCode, idx, hist>>

\* selectComponentLibrary(): one round of the while (true) loop
ChooseLibrary ==
  /\ script = "setup" /\ pc = "choose"
  /\ \E answer \in ChoiceAnswers :
       LET choice == parseInt(Trim(answer))
       IN
       /\ typed' = answer
       /\  IF ~choice.nan /\ choice.n >= 1 /\ choice.n <= Len(LibraryKeys)
           THEN /\ config' = [config EXCEPT !.componentLibrary = LibraryKeys[choice.n]]
                /\ pc' = "npmci"
                /\ UNCHANGED <<out, retries>>
           ELSE /\ retries < MaxRetries
                /\ Say("Invalid choice. Please enter a number between 1 and 4.")
                /\ retries' = retries + 1
                /\ UNCHANGED <<config, pc>>
  /\ UNCHANGED <<data, request, response, script, argv, seo, draft, consulted, fs, dirs, cmds, writes,
                 exitCode, idx, hist>>

\* the reinstall with its error swallowed: the run goes on after a failure
CleanInstallIgnoresFailure ==
  /\ script = "setup" /\ pc = "npmci"
  /\ \E ok \in BOOLEAN :
       /\ cmds' = Append(cmds, [cmd |-> "npm ci", ok |-> ok])
       /\ Say(IF ok THEN "Dependencies cleaned and installed successfully!"
                    ELSE "Error during setup")
       /\ pc' = "library"
       /\ UNCHANGED exitCode
  /\ UNCHANGED <<data, request, response, script, argv, config, seo, draft, consulted, fs, dirs, writes,
                 retries, idx, hist, typed>>

\* setup(): execSync("npm ci"); its failure is thrown to setup().catch
CleanInstall ==
  /\ script = "setup" /\ pc = "npmci"
  /\ \E ok \in BOOLEAN :
       /\ cmds' = Append(cmds, [cmd |-> "npm ci", ok |-> ok])
       /\ IF ok
          THEN /\ Say("Dependencies cleaned and installed successfully!")
               /\ pc' = "library"
               /\ UNCHANGED exitCode
          ELSE /\ Say("Error during setup")
               /\ Exit(1)
  /\ UNCHANGED <<data, request, response, script, argv, config, seo, draft, consulted, fs, dirs, writes,
                 retries, idx, hist, typed>>

\* setupComponentLibrary("none")
SkipLibrary ==
  /\ script = "setup" /\ pc = "library"
  /\ config.componentLibrary = "none"
  /\ Say("Skipping component library installation.")
  /\ pc' = "summary"
  /\ UNCHANGED <<data, request, response, script, argv, config, seo, draft, consulted, fs, dirs, cmds,
                 writes, exitCode, retries, idx, hist, typed>>

\* installPackages without the test of an empty package list
InstallPackagesEmptyRuns(at, packages, isDev, next) ==
  /\ script = "setup" /\ pc = at
  /\ config.componentLibrary # "none"
  /\ \E ok \in BOOLEAN :
       /\ cmds' = Append(cmds, [cmd |-> InstallCommand(packages, isDev), ok |-> ok])
       /\ IF ok
          THEN /\ Say("Packages installed successfully!")
               /\ pc' = next
               /\ UNCHANGED exitCode
          ELSE /\ Say("Error installing packages. Please try manually")
               /\ Exit(1)
  /\ UNCHANGED <<data, request, response, script, argv, config, seo, draft, consulted, fs, dirs, writes,
                 retries, idx, hist, typed>>

\* installPackages with a catch block that does not call process.exit(1)
InstallPackagesNoExit(at, packages, isDev, next) ==
  /\ script = "setup" /\ pc = at
  /\ config.componentLibrary # "none"
  /\ IF packages = <<>>
     THEN /\ pc' = next
          /\ UNCHANGED <<cmds, out>>
     ELSE \E ok \in BOOLEAN :
            /\ cmds' = Append(cmds, [cmd |-> InstallCommand(packages, isDev), ok |-> ok])
            /\ Say(IF ok THEN "Packages installed successfully!"
                   ELSE "Error installing packages. Please try manually")
            /\ pc' = next
  /\ UNCHANGED <<data, request, response, script, argv, config, seo, draft, consulted, fs, dirs, writes,
                 exitCode, retries, idx, hist, typed>>

\* installPackages(packages, isDev) at position at, going on to position next
InstallPackages(at, packages, isDev, next) ==
  /\ script = "setup" /\ pc = at
  /\ config.componentLibrary # "none"
  /\ IF packages = <<>>
     THEN /\ pc' = next
          /\ UNCHANGED <<cmds, out, exitCode>>
     ELSE \E ok \in BOOLEAN :
            /\ cmds' = Append(cmds, [cmd |-> InstallCommand(packages, isDev), ok |-> ok])
            /\ IF ok
               THEN /\ Say("Packages installed successfully!")
                    /\ pc' = next
                    /\ UNCHANGED exitCode
               ELSE /\ Say("Error installing packages. Please try manually")
                    /\ Exit(1)
  /\ UNCHANGED <<data, request, response, script, argv, config, seo, draft, consulted, fs, dirs, writes,
                 retries, idx, hist, typed>>

\* setupComponentLibrary: the regular packages, then the dev packages
InstallRegular ==
  InstallPackages("library", COMPONENT_LIBRARIES(config.componentLibrary).packages,
                  FALSE, "devPackages")

InstallDev ==
  InstallPackages("devPackages", COMPONENT_LIBRARIES(config.componentLibrary).devPackages,
                  TRUE, "customSetup")

\* the layout step of the heroui and chakra custom setups
InjectLayout(r, next) ==
  IF r.threw
  THEN /\ Say("Error during setup")
       /\ Exit(1)
       /\ UNCHANGED <<fs, writes>>
  ELSE /\ fs' = [fs EXCEPT ![LayoutPath] = r.file]
       /\ writes' = IF r.wrote THEN Append(writes, LayoutPath) ELSE writes
       /\ Say(r.msg)
       /\ pc' = next
       /\ UNCHANGED exitCode

\* COMPONENT_LIBRARIES.heroui.customSetup: updateLayoutForHeroUI
HeroLayout ==
  /\ script = "setup" /\ pc = "customSetup"
  /\ config.componentLibrary = "heroui"
  /\ InjectLayout(updateLayoutForHeroUI(fs[LayoutPath]), "tailwind")
  /\ UNCHANGED <<data, request, response, script, argv, config, seo, draft, consulted, dirs, cmds,
                 retries, idx, hist, typed>>

\* COMPONENT_LIBRARIES.heroui.customSetup: updateTailwindConfig("heroui")
HeroTailwind ==
  /\ script = "setup" /\ pc = "tailwind"
  /\ LET r == updateTailwindConfig(fs[TailwindPath], config.componentLibrary)
     IN  /\ fs' = [fs EXCEPT ![TailwindPath] = r.file]
         /\ writes' = IF r.wrote THEN Append(writes, TailwindPath) ELSE writes
         /\ Say(r.msg)
  /\ pc' = "instructions"
  /\ UNCHANGED <<data, request, response, script, argv, config, seo, draft, consulted, dirs, cmds,
                 exitCode, retries, idx, hist, typed>>

\* COMPONENT_LIBRARIES.chakra.customSetup: updateLayoutForChakraUI
ChakraLayout ==
  /\ script = "setup" /\ pc = "customSetup"
  /\ config.componentLibrary = "chakra"
  /\ InjectLayout(updateLayoutForChakraUI(fs[LayoutPath]), "instructions")
  /\ UNCHANGED <<data, request, response, script, argv, config, seo, draft, consulted, dirs, cmds,
                 retries, idx, hist, typed>>

\* what the catch block of the shadcn custom setup does with a failed command
ShadcnFailure ==
  /\ Say("shadcn/ui setup had issues. You may need to run setup commands manually.")
  /\ pc' = "instructions"
  /\ UNCHANGED idx

\* COMPONENT_LIBRARIES.shadcn.customSetup: npx shadcn@latest init
ShadcnInit ==
  /\ script = "setup" /\ pc = "customSetup"
  /\ config.componentLibrary = "shadcn"
  /\ \E ok \in BOOLEAN :
       /\ cmds' = Append(cmds, [cmd |-> "npx shadcn@latest init -y -d", ok |-> ok])
       /\ IF ok
          THEN /\ Say("Installing common components...")
               /\ pc' = "shadcnAdd"
               /\ idx' = 1
          ELSE ShadcnFailure
  /\ UNCHANGED <<data, request, response, script, argv, config, seo, draft, consulted, fs, dirs, writes,
                 exitCode, retries, hist, typed>>

\* COMPONENT_LIBRARIES.shadcn.customSetup: one round of the for loop over
\* the components; the try block encloses the whole loop
ShadcnAdd ==
  /\ script = "setup" /\ pc = "shadcnAdd"
  /\ \E ok \in BOOLEAN :
       /\ cmds' = Append(cmds, [cmd |-> "npx shadcn@latest add " \o ShadcnComponents[idx] \o " -y",
                                ok |-> ok])
       /\ IF ok
          THEN /\ pc' = IF idx = Len(ShadcnComponents) THEN "instructions" ELSE "shadcnAdd"
               /\ idx' = IF idx = Len(ShadcnComponents) THEN idx ELSE idx + 1
               /\ UNCHANGED out
          ELSE ShadcnFailure
  /\ UNCHANGED <<data, request, response, script, argv, config, seo, draft, consulted, fs, dirs, writes,
                 exitCode, retries, hist, typed>>

\* setupComponentLibrary: the setup instructions of the library
ShowInstructions ==
  /\ script = "setup" /\ pc = "instructions"
  /\ IF COMPONENT_LIBRARIES(config.componentLibrary).setupInstructions
     THEN Say("Instructions: " \o COMPONENT_LIBRARIES(config.componentLibrary).name)
     ELSE UNCHANGED out
  /\ pc' = "summary"
  /\ UNCHANGED <<data, request, response, script, argv, config, seo, draft, consulted, fs, dirs, cmds,
                 writes, exitCode, retries, idx, hist, typed>>

\* setup(): the closing summary; the promise resolves and the process ends
SetupSummary ==
  /\ script = "setup" /\ pc = "summary"
  /\ Say("Setup complete!")
  /\ pc' = "done"
  /\ exitCode' = 0
  /\ UNCHANGED <<data, request, response, script, argv, config, seo, draft, consulted, fs, dirs, cmds,
                 writes, retries, idx, hist, typed>>

SetupNext ==
  \/ GetProjectName
  \/ PatchFiles
  \/ ShowLibraryMenu
  \/ ChooseLibrary
  \/ CleanInstall
  \/ SkipLibrary
  \/ InstallRegular
  \/ InstallDev
  \/ HeroLayout
  \/ HeroTailwind
  \/ ChakraLayout
  \/ ShadcnInit
  \/ ShadcnAdd
  \/ ShowInstructions
  \/ SetupSummary

EmptyDraft ==
  [siteName |-> "", siteTagline |-> "", siteUrl |-> "", author |-> "", locale |-> "",
   businessType |-> "", keywords |-> "", twitter |-> "", facebook |-> "", linkedin |-> ""]

\* the variables a run starts with, whatever its script
Fresh ==
  /\ pc = "start"
  /\ config = [projectName |-> "", componentLibrary |-> ""]
  /\ seo = [ok |-> FALSE, config |-> Object(<<>>)]
  /\ draft = EmptyDraft
  /\ consulted = <<>>
  /\ dirs = DirsOf(fs)
  /\ cmds = <<>>
  /\ out = <<>>
  /\ writes = <<>>
  /\ exitCode = -1
  /\ retries = 0
  /\ idx = 0
  /\ typed = ""
  /\ hist = <<>>
  /\ data = SeedData
  /\ request = NoRequest
  /\ response = NoResponse

(***************************************************************************)
(* scripts/seo-setup.ts: the SEO run.                                      *)
(***************************************************************************)
MinimalTemplate ==
  [siteName |-> Str("A"), siteTagline |-> Str("B"), siteUrl |-> Str("https://a.com"),
   author |-> Str("C"), businessType |-> Str("blog"), keywords |-> Arr(<<>>)]

FullTemplate ==
  ("$schema" :> Str("./schema.json")) @@
  [siteName |-> Str("Shop"), siteTagline |-> Str("Buy"), siteUrl |-> Str("https://b.com/"),
   author |-> Str("D"), businessType |-> Str("corporate"), keywords |-> Arr(<<"x", "y">>),
   locale |-> Str("fr"), social |-> Obj([k \in {"twitter"} |-> "shop"]),
   _comments |-> Str("notes")]

\* the template files of the working directory, by path
TemplateFile(path) ==
  CASE path = "minimal.json" -> JsonObject(MinimalTemplate)
    [] path = "full.json" -> JsonObject(FullTemplate)
    [] path = "seo-template.json" ->
         JsonObject([MinimalTemplate EXCEPT !.businessType = Str("saas")])
    [] path = "noname.json" ->
         JsonObject([siteTagline |-> Str("B"), siteUrl |-> Str("https://a.com"),
                     author |-> Str("C"), businessType |-> Str("invalid"),
                     keywords |-> Arr(<<>>)])
    [] path = "nokeywords.json" ->
         JsonObject([MinimalTemplate EXCEPT !.keywords = Str("a,b")])
    [] path = "badtype.json" ->
         JsonObject([MinimalTemplate EXCEPT !.businessType = Str("invalid")])
    [] path = "null.json" -> JsonNull
    [] path = "number.json" -> JsonScalar
    [] path = "broken.json" -> BadJson
    [] OTHER -> NoTemplate

\* process.argv[2] of the SEO script
SeoArgs == {"", "--template=minimal.json", "--template=full.json",
            "--template=noname.json", "--template=missing.json",
            "--template=broken.json", "--template=badtype.json"}

\* what the user types at "Do you have a template file? (y/N): "
UseTemplateAnswers == {"", "y", " Y", "n"}

\* what the user types at "Enter template file path (seo-template.json): "
TemplatePathAnswers == {"", "nokeywords.json", "null.json", "number.json"}

\* what the user types at the first five prompts of collectSeoInfo
FieldAnswers ==
  {[siteName |-> "", siteTagline |-> "Best", siteUrl |-> "https://a.com/",
    author |-> "C", locale |-> ""],
   [siteName |-> " Acme ", siteTagline |-> "", siteUrl |-> "",
    author |-> "", locale |-> "fr"]}

\* what the user types at "Enter your choice (1-6): "
TypeAnswers == {"1", "2", "3", "4", "5", "6", "0", "7", ""}

\* what the user types at the keyword and social prompts
RestAnswers ==
  {[keywords |-> "", twitter |-> "", facebook |-> "", linkedin |-> ""],
   [keywords |-> "a, b,,c", twitter |-> "acme", facebook |-> "",
    linkedin |-> "https://linkedin.com/acme"]}

\* what the user types at "Proceed with SEO setup? (Y/n): "
ConfirmAnswers == {"", "n", " N ", "no", "y"}

SeoTrees ==
  {[t EXCEPT ![LayoutPath] = l] :
     t \in {[EmptyTree EXCEPT !["package.json"] = File(PackageSample)], EmptyTree},
     l \in LayoutFiles}

\* getTemplateFromArgs(): the text between the first and the second "=" of
\* an argument that starts with --template=; "" stands for null
getTemplateFromArgs(arg) ==
  IF ~startsWith(arg, "--template=") THEN ""
  ELSE LET rest == SubSeq(arg, Len("--template=") + 1, Len(arg))
           j    == IndexOfFrom(rest, "=", 1)
       IN  IF j = 0 THEN rest ELSE SubSeq(rest, 1, j - 1)

\* runSeoSetup after config = loadTemplateFile(..) returned r: the summary
\* with the config, or the fallback message and the next source; an error
\* that left the loader rejects runSeoSetup, and main's catch exits with 1
Loaded(r, said, fallback) ==
  IF r.threw
  THEN /\ out' = out \o said \o <<"Error during SEO setup">>
       /\ Exit(1)
  ELSE /\ out' = out \o said \o (IF r.msg # "" THEN <<r.msg>> ELSE <<>>) \o r.errors
                   \o (IF r.ok THEN <<>> ELSE <<"Falling back to interactive mode...">>)
       /\ pc' = IF r.ok THEN "summary" ELSE fallback
       /\ UNCHANGED exitCode

\* runSeoSetup(templatePath): the template named on the command line
LoadArgTemplate ==
  /\ script = "seo" /\ pc = "start"
  /\ LET templatePath == getTemplateFromArgs(argv)
         r == loadTemplateFile(TemplateFile(templatePath))
     IN  IF templatePath = ""
         THEN /\ pc' = "askTemplate"
              /\ UNCHANGED <<seo, consulted, out, exitCode>>
         ELSE /\ seo' = [ok |-> r.ok, config |-> r.config]
              /\ consulted' = Append(consulted, [source |-> "argument", path |-> templatePath])
              /\ Loaded(r, <<"Loading configuration from template: " \o templatePath>>,
                        "askTemplate")
  /\ UNCHANGED <<data, request, response, script, argv, config, draft, fs, dirs, cmds, writes,
                 retries, idx, hist, typed>>

\* runSeoSetup: the template named at the prompt
AskTemplate ==
  /\ script = "seo" /\ pc = "askTemplate"
  /\ \E useTemplate \in UseTemplateAnswers, templateFile \in TemplatePathAnswers :
       IF toLowerCase(Trim(useTemplate)) # "y"
       THEN /\ pc' = "collect"
            /\ typed' = useTemplate
            /\ UNCHANGED <<seo, consulted, out, exitCode>>
       ELSE LET filePath == IF Trim(templateFile) # "" THEN Trim(templateFile)
                            ELSE "seo-template.json"
                r == loadTemplateFile(TemplateFile(filePath))
            IN  /\ typed' = templateFile
                /\ seo' = [ok |-> r.ok, config |-> r.config]
                /\ consulted' = Append(consulted, [source |-> "prompted file", path |-> filePath])
                /\ Loaded(r, <<>>, "collect")
  /\ UNCHANGED <<data, request, response, script, argv, config, draft, fs, dirs, cmds, writes,
                 retries, idx, hist>>

\* collectSeoInfo(): toTitleCase(getProjectName()), for each package.json
\* of the working trees
defaultSiteNames ==
  [pkg \in {t["package.json"] : t \in SeoTrees} |-> toTitleCase(getProjectName(pkg))]

\* collectSeoInfo(): site name, tagline, URL, author and locale, then the
\* business type menu
CollectFields ==
  /\ script = "seo" /\ pc = "collect"
  /\ \E a \in FieldAnswers :
       LET defaultSiteName == defaultSiteNames[fs["package.json"]]
       IN  /\ draft' = [draft EXCEPT
                          !.siteName = IF Trim(a.siteName) # "" THEN Trim(a.siteName)
                                       ELSE defaultSiteName,
                          !.siteTagline = Trim(a.siteTagline),
                          !.siteUrl = Trim(a.siteUrl),
                          !.author = Trim(a.author),
                          !.locale = IF Trim(a.locale) # "" THEN Trim(a.locale) ELSE "en"]
           /\ typed' = a.locale
  /\ consulted' = Append(consulted, [source |-> "interactive", path |-> ""])
  /\ Say("Select your business type")
  /\ retries' = 0
  /\ pc' = "businessType"
  /\ UNCHANGED <<data, request, response, script, argv, config, seo, fs, dirs, cmds, writes, exitCode,
                 idx, hist>>

\* collectSeoInfo(): parseInt(choice) of each answer, choice as prompt()
\* trims it
typeChoices == [answer \in TypeAnswers |-> parseInt(Trim(answer))]

\* collectSeoInfo(): one round of the while (!businessType) loop
ChooseBusinessType ==
  /\ script = "seo" /\ pc = "businessType"
  /\ \E answer \in TypeAnswers :
       LET choice == typeChoices[answer]
           index  == choice.n - 1
       IN
       /\ typed' = answer
       /\  IF ~choice.nan /\ index >= 0 /\ index < Len(BUSINESS_TYPES)
           THEN /\ draft' = [draft EXCEPT !.businessType = BUSINESS_TYPES[index + 1]]
                /\ pc' = "keywords"
                /\ UNCHANGED <<out, retries>>
           ELSE /\ retries < MaxRetries
                /\ Say("Invalid choice. Please try again.")
                /\ retries' = retries + 1
                /\ UNCHANGED <<draft, pc>>
  /\ UNCHANGED <<data, request, response, script, argv, config, seo, consulted, fs, dirs, cmds, writes,
                 exitCode, idx, hist>>

\* collectSeoInfo(): keywords and social fields, and the object returned
CollectRest ==
  /\ script = "seo" /\ pc = "keywords"
  /\ \E a \in RestAnswers :
       /\ draft' = [draft EXCEPT !.keywords = Trim(a.keywords),
                                 !.twitter = Trim(a.twitter),
                                 !.facebook = Trim(a.facebook),
                                 !.linkedin = Trim(a.linkedin)]
       /\ seo' = [ok |-> TRUE, config |-> collectedConfig(draft')]
       /\ typed' = a.linkedin
  /\ pc' = "summary"
  /\ UNCHANGED <<data, request, response, script, argv, config, consulted, fs, dirs, cmds, out, writes,
                 exitCode, retries, idx, hist>>

\* the confirmation compared with the case of the answer kept
declinesExactCase(confirm) == Trim(confirm) = "n"

\* runSeoSetup: confirm.toLowerCase() === "n", confirm as prompt() trims it
declines(confirm) == toLowerCase(Trim(confirm)) = "n"

\* runSeoSetup: the configuration summary and the confirmation prompt
Confirm ==
  /\ script = "seo" /\ pc = "summary"
  /\ \E confirm \in ConfirmAnswers :
       /\ typed' = confirm
       /\ out' = out \o <<"Configuration Summary: " \o Render(seo.config["siteName"])
                             \o " " \o Render(seo.config["siteUrl"]),
                           IF declines(confirm)
                           THEN "SEO setup cancelled."
                           ELSE "Generating SEO files...">>
       /\ IF declines(confirm)
          THEN /\ pc' = "done"
               /\ exitCode' = 0
          ELSE /\ pc' = "generate"
               /\ UNCHANGED exitCode
  /\ UNCHANGED <<data, request, response, script, argv, config, seo, draft, consulted, fs, dirs, cmds,
                 writes, retries, idx, hist>>

\* the content each generated path is written with
Generated(path, c) ==
  CASE path = "src/lib/seo.config.ts" -> generateSeoConfig(c)
    [] path = "src/lib/metadata-helper.ts" -> generateMetadataHelper
    [] path = "src/lib/structured-data.tsx" -> generateStructuredData(c)
    [] path = "src/app/sitemap.ts" -> generateSitemap(c)
    [] path = "src/app/robots.ts" -> generateRobots(c)
    [] path = "src/app/manifest.ts" -> generateManifest(c)
    [] OTHER -> generateSeoGuide(c)

\* runSeoSetup: the six writeFile calls, each creating its directory first
GenerateFiles ==
  /\ script = "seo" /\ pc = "generate"
  /\ fs' = [p \in Paths |->
              IF \E i \in 1..Len(GeneratedPaths) : GeneratedPaths[i] = p
              THEN File(Generated(p, seo.config)) ELSE fs[p]]
  /\ dirs' = dirs \cup {Dirname(GeneratedPaths[i]) : i \in 1..Len(GeneratedPaths)}
  /\ writes' = writes \o GeneratedPaths
  /\ out' = out \o [i \in 1..Len(GeneratedPaths) |-> "Created: " \o GeneratedPaths[i]]
  /\ pc' = "layout"
  /\ UNCHANGED <<data, request, response, script, argv, config, seo, draft, consulted, cmds, exitCode,
                 retries, idx, hist, typed>>

\* runSeoSetup: updateLayout(config)
PatchSeoLayout ==
  /\ script = "seo" /\ pc = "layout"
  /\ LET r == updateLayout(fs[LayoutPath])
     IN  /\ fs' = [fs EXCEPT ![LayoutPath] = r.file]
         /\ writes' = IF r.wrote THEN Append(writes, LayoutPath) ELSE writes
         /\ Say(r.msg)
  /\ pc' = "guide"
  /\ UNCHANGED <<data, request, response, script, argv, config, seo, draft, consulted, dirs, cmds,
                 exitCode, retries, idx, hist, typed>>

\* runSeoSetup: the guide, the public/og directory and the closing message;
\* the promise resolves and the process ends
WriteGuide ==
  /\ script = "seo" /\ pc = "guide"
  /\ fs' = [fs EXCEPT ![GuidePath] = File(generateSeoGuide(seo.config))]
  /\ dirs' = dirs \cup {Dirname(GuidePath), "public/og"}
  /\ writes' = Append(writes, GuidePath)
  /\ out' = out \o <<"Created: " \o GuidePath, "Created: public/og/", "SEO Setup Complete!">>
  /\ pc' = "done"
  /\ exitCode' = 0
  /\ UNCHANGED <<data, request, response, script, argv, config, seo, draft, consulted, cmds, retries,
                 idx, hist, typed>>

SeoNext ==
  \/ LoadArgTemplate
  \/ AskTemplate
  \/ CollectFields
  \/ ChooseBusinessType
  \/ CollectRest
  \/ Confirm
  \/ GenerateFiles
  \/ PatchSeoLayout
  \/ WriteGuide

SetupInit ==
  /\ script = "setup"
  /\ argv \in SetupArgs
  /\ fs \in SetupTrees
  /\ Fresh

SetupSpec == SetupInit /\ [][SetupNext]_vars


SeoInit ==
  /\ script = "seo"
  /\ argv \in SeoArgs
  /\ fs \in SeoTrees
  /\ Fresh

SeoSpec == SeoInit /\ [][SeoNext]_vars

\* runSeoSetup up to the configuration summary
SourcesNext ==
  \/ LoadArgTemplate
  \/ AskTemplate
  \/ CollectFields
  \/ ChooseBusinessType
  \/ CollectRest

\* the same with a user who answers every prompt: the script is one
\* sequential process, so a step that can be taken is taken
FairSourcesSpec == SeoInit /\ [][SourcesNext]_vars /\ WF_vars(SourcesNext)

\* a run of either script on a working tree
Init == SetupInit \/ SeoInit

Next == SetupNext \/ SeoNext

Spec == Init /\ [][Next]_vars

(***************************************************************************)
(* One function of the scripts called repeatedly on one file: the file     *)
(* patcher, the provider injectors, the SEO layout patch and the tailwind  *)
(* patch, each on every file the fragments below put together.             *)
(***************************************************************************)
\* every concatenation of at most n of the fragments
RECURSIVE Concats(_, _)
Concats(frags, n) ==
  IF n = 0 THEN {""}
  ELSE LET shorter == Concats(frags, n - 1)
       IN  shorter \cup {c \o f : c \in shorter, f \in frags}

PatchFrags ==
  {"# Next.js Template", "Next.js Template", ".js Template", "About This Template",
   " plain text\n", "keywords: [\"Next.js\", \"React\", \"TypeScript\", \"Template\"]"}

\* project names isValidProjectName accepts
PatchNames == {"next", "About This Template", "Acme Store", "my-cool_app"}

LayoutFrags ==
  {"\"use client\";\n", GlobalsImport \o "\n", "<body>{children}</body>\n", "{ children }",
   MetadataOpen \o "\n  title: \"x\",\n};\n",
   "import { HeroUIProvider } from \"@heroui/react\";\n"}

FnNames == {"updateFile", "updateLayoutForHeroUI", "updateLayoutForChakraUI",
            "updateLayout", "updateTailwindConfig"}

\* the path the function under test is called on
Target(fn) ==
  CASE fn = "updateFile" -> "README.md"
    [] fn = "updateTailwindConfig" -> TailwindPath
    [] OTHER -> LayoutPath

FnFiles(fn) ==
  CASE fn = "updateFile" -> {NoFile} \cup {File(c) : c \in Concats(PatchFrags, MaxFrags)}
    [] fn = "updateTailwindConfig" ->
         TailwindFiles \cup {File("export default { content: [], plugins: [] }")}
    [] OTHER -> {NoFile} \cup {File(c) : c \in Concats(LayoutFrags, MaxLayoutFrags)}

FnInit ==
  /\ script = "fn"
  /\ pc \in FnNames
  /\ argv = ""
  /\ \E name \in PatchNames, library \in {"heroui", "chakra"} :
       config = [projectName |-> IF pc = "updateFile" THEN name ELSE "",
                 componentLibrary |-> IF pc = "updateTailwindConfig" THEN library ELSE ""]
  /\ \E f \in FnFiles(pc) :
       /\ fs = [EmptyTree EXCEPT ![Target(pc)] = f]
       /\ hist = <<f>>
  /\ seo = [ok |-> FALSE, config |-> Object(<<>>)]
  /\ draft = EmptyDraft
  /\ consulted = <<>>
  /\ dirs = DirsOf(fs)
  /\ cmds = <<>>
  /\ out = <<>>
  /\ writes = <<>>
  /\ exitCode = -1
  /\ retries = 0
  /\ idx = 0
  /\ typed = ""
  /\ data = SeedData
  /\ request = NoRequest
  /\ response = NoResponse

\* the effect of one call that returned r on the file at path
Called(path, r) ==
  /\ Len(hist) <= MaxCalls
  /\ fs' = [fs EXCEPT ![path] = r.file]
  /\ hist' = Append(hist, r.file)
  /\ writes' = IF r.wrote THEN Append(writes, path) ELSE writes
  /\ Say(r.msg)
  /\ UNCHANGED <<data, request, response, script, pc, argv, config, seo, draft, consulted, dirs, cmds,
                 exitCode, retries, idx, typed>>

CallUpdateFile ==
  /\ script = "fn" /\ pc = "updateFile"
  /\ Called("README.md", updateFile(fs["README.md"], getReplacements(config.projectName)))

CallUpdateLayoutForHeroUI ==
  /\ script = "fn" /\ pc = "updateLayoutForHeroUI"
  /\ Called(LayoutPath, updateLayoutForHeroUI(fs[LayoutPath]))

CallUpdateLayoutForChakraUI ==
  /\ script = "fn" /\ pc = "updateLayoutForChakraUI"
  /\ Called(LayoutPath, updateLayoutForChakraUI(fs[LayoutPath]))

CallUpdateLayout ==
  /\ script = "fn" /\ pc = "updateLayout"
  /\ Called(LayoutPath, updateLayout(fs[LayoutPath]))

CallUpdateTailwindConfig ==
  /\ script = "fn" /\ pc = "updateTailwindConfig"
  /\ Called(TailwindPath, updateTailwindConfig(fs[TailwindPath], config.componentLibrary))

FnNext ==
  \/ CallUpdateFile
  \/ CallUpdateLayoutForHeroUI
  \/ CallUpdateLayoutForChakraUI
  \/ CallUpdateLayout
  \/ CallUpdateTailwindConfig

FnSpec == FnInit /\ [][FnNext]_vars

(***************************************************************************)
(* validateSeoConfig and loadTemplateFile called on one template at a      *)
(* time: hist[1] is the template before the first call, hist[i + 1] the    *)
(* template after call i, seo the value the last call returned and out     *)
(* what the calls printed.                                                 *)
(***************************************************************************)
\* the candidate objects, what JSON.parse makes of an object literal: each
\* required field with values that pass and values that fail its check, and
\* locale, social, _comments and $schema given or left out together
Candidates ==
  { ("$schema" :> x[4]) @@
    [siteName |-> n, siteTagline |-> g, siteUrl |-> u, author |-> a,
     businessType |-> b, keywords |-> k, locale |-> x[1], social |-> x[2],
     _comments |-> x[3]] :
      n \in {Undef, Str(""), Str("A"), Num("5")},
      g \in {Undef, Str("B")},
      u \in {Null, Str("https://a.com")},
      a \in {Str(""), Str("C")},
      b \in {Undef, Str("blog"), Str("other"), Str("invalid"), Num("5")},
      k \in {Undef, Arr(<<>>), Arr(<<"a">>), Str("a,b")},
      x \in { <<Undef, Undef, Undef, Undef>>,
              <<Str("fr"), Obj([f \in {"twitter"} |-> "a"]), Undef, Undef>>,
              <<Str(""), Null, Undef, Undef>>,
              <<Undef, Undef, Str("notes"), Str("./schema.json")>>,
              <<Str("fr"), Undef, Obj(NoSocial), Undef>> } }

SeoFnNames == {"validateSeoConfig", "loadTemplateFile"}

\* the templates each function is called on
SeoFnFiles(name) ==
  {JsonObject(c) : c \in Candidates}
  \cup (IF name = "loadTemplateFile"
        THEN {NoTemplate, BadJson, JsonNull, JsonScalar} ELSE {})

SeoFnInit ==
  /\ script = "seofn"
  /\ pc \in SeoFnNames
  /\ argv = ""
  /\ config = [projectName |-> "", componentLibrary |-> ""]
  /\ fs = EmptyTree
  /\ \E t \in SeoFnFiles(pc) : hist = <<t>>
  /\ seo = [ok |-> FALSE, config |-> Object(<<>>)]
  /\ draft = EmptyDraft
  /\ consulted = <<>>
  /\ dirs = DirsOf(fs)
  /\ cmds = <<>>
  /\ out = <<>>
  /\ writes = <<>>
  /\ exitCode = -1
  /\ retries = 0
  /\ idx = 0
  /\ typed = ""
  /\ data = SeedData
  /\ request = NoRequest
  /\ response = NoResponse

\* validateSeoConfig(config) on the parsed candidate: it reads the fields,
\* prints the errors under their header and returns whether there were none
CallValidateSeoConfig ==
  /\ script = "seofn" /\ pc = "validateSeoConfig"
  /\ Len(hist) <= MaxCalls
  /\ LET t == hist[Len(hist)]
         errors == SeoErrors(t.fields)
     IN  /\ seo' = [ok |-> validateSeoConfig(t.fields), config |-> t.fields]
         /\ out' = out \o (IF errors = <<>> THEN <<>>
                           ELSE <<"Template validation errors">> \o errors)
         /\ hist' = Append(hist, t)
  /\ UNCHANGED <<data, request, response, script, pc, argv, config, draft, consulted, fs, dirs, cmds,
                 writes, exitCode, retries, idx, typed>>

\* loadTemplateFile(templatePath) on the template: it reads the file and
\* returns the config or null; an error that leaves it ends the call
CallLoadTemplateFile ==
  /\ script = "seofn" /\ pc = "loadTemplateFile"
  /\ Len(hist) <= MaxCalls
  /\ LET t == hist[Len(hist)]
         r == loadTemplateFile(t)
     IN  /\ seo' = [ok |-> r.ok, config |-> r.config]
         /\ out' = out \o (IF r.msg # "" THEN <<r.msg>> ELSE <<>>) \o r.errors
         /\ hist' = Append(hist, t)
         /\ exitCode' = IF r.threw THEN 1 ELSE exitCode
  /\ UNCHANGED <<data, request, response, script, pc, argv, config, draft, consulted, fs, dirs, cmds,
                 writes, retries, idx, typed>>

SeoFnNext ==
  \/ CallValidateSeoConfig
  \/ CallLoadTemplateFile

SeoFnSpec == SeoFnInit /\ [][SeoFnNext]_vars

(***************************************************************************)
(* src/app/api/data/route.ts: the four handlers of /api/data. A handler    *)
(* touches data only after its last await, so a request is one step.       *)
(***************************************************************************)
\* the id parameters requests come with
IdParams == {NoParam, Param(""), Param("1"), Param("2"), Param("3"), Param("4"),
             Param("9"), Param("abc"), Param("2x")}

\* the bodies of POST requests
PostBodies ==
  {Body([name |-> Str("New"), description |-> Str("Made")]),
   Body([name |-> Str("New")]),
   Body([name |-> Str(""), description |-> Str("Made")]),
   NullBody, ScalarBody, BadBody}

\* the bodies of PUT requests
PutBodies ==
  {Body([id |-> NumOf(1), name |-> Str("Renamed")]),
   Body([id |-> NumOf(3), extra |-> Null]),
   Body([id |-> NumOf(9), name |-> Str("Renamed")]),
   Body([id |-> NumOf(0), name |-> Str("Renamed")]),
   Body([id |-> Str("1"), name |-> Str("Renamed")]),
   Body([name |-> Str("Renamed")]),
   NullBody, ScalarBody, BadBody}

\* parseInt(id) of the id parameters, as a number value; Undef stands for NaN
parsedIds ==
  [id \in {p.v : p \in IdParams} |->
     IF parseInt(id).nan THEN Undef ELSE NumOf(parseInt(id).n)]

\* item.id === parseInt(id)
IdIs(item, id) == item["id"] = parsedIds[id]

\* data.find / data.findIndex: the first position whose item passes, 0 for
\* none (find's undefined, findIndex's -1)
FindIndex(Test(_)) ==
  IF \E i \in 1..Len(data) : Test(data[i])
  THEN CHOOSE i \in 1..Len(data) :
         Test(data[i]) /\ \A j \in 1..(i - 1) : ~Test(data[j])
  ELSE 0

\* data.splice(itemIndex, 1)
Splice(items, i) == SubSeq(items, 1, i - 1) \o SubSeq(items, i + 1, Len(items))

\* { ...item, ...body }
Spread(item, body) == [k \in ApiFields |-> IF body[k] # Undef THEN body[k] ELSE item[k]]

ApiRest == <<script, pc, argv, config, seo, draft, consulted, fs, dirs, cmds, out,
             writes, exitCode, retries, idx, typed, hist>>

GET ==
  /\ script = "api"
  /\ \E id \in IdParams :
       /\ request' = Request("GET", id, BadBody)
       /\ IF id.given /\ id.v # ""
          THEN LET Test(item) == IdIs(item, id.v)
                   i == FindIndex(Test)
               IN  response' = IF i = 0 THEN Json(404, "Item not found", <<>>)
                               ELSE Json(200, "", <<data[i]>>)
          ELSE response' = Json(200, "", data)
  /\ UNCHANGED data
  /\ UNCHANGED ApiRest

\* the handler without the test of name and description
POSTUnvalidated ==
  /\ script = "api"
  /\ \E body \in PostBodies :
       /\ request' = Request("POST", NoParam, body)
       /\ IF body.json \in {"error", "null"}
          THEN /\ response' = Json(400, "Invalid request body", <<>>)
               /\ UNCHANGED data
          ELSE LET newItem == ApiObject([id |-> NumOf(Len(data) + 1),
                                         name |-> body.fields["name"],
                                         description |-> body.fields["description"]])
               IN  /\ Len(data) < MaxItems
                   /\ data' = Append(data, newItem)
                   /\ response' = Json(201, "Item created successfully", <<newItem>>)
  /\ UNCHANGED ApiRest

POST ==
  /\ script = "api"
  /\ \E body \in PostBodies :
       /\ request' = Request("POST", NoParam, body)
       /\ IF body.json \in {"error", "null"}
          THEN /\ response' = Json(400, "Invalid request body", <<>>)
               /\ UNCHANGED data
          ELSE IF ~Truthy(body.fields["name"]) \/ ~Truthy(body.fields["description"])
          THEN /\ response' = Json(400, "Missing required fields: name and description", <<>>)
               /\ UNCHANGED data
          ELSE LET newItem == ApiObject([id |-> NumOf(Len(data) + 1),
                                         name |-> body.fields["name"],
                                         description |-> body.fields["description"]])
               IN  /\ Len(data) < MaxItems
                   /\ data' = Append(data, newItem)
                   /\ response' = Json(201, "Item created successfully", <<newItem>>)
  /\ UNCHANGED ApiRest

\* the handler that answers 404 for every id no item has, 0 among them
PUTPresenceTest ==
  /\ script = "api"
  /\ \E body \in PutBodies :
       /\ request' = Request("PUT", NoParam, body)
       /\ IF body.json \in {"error", "null"}
          THEN /\ response' = Json(400, "Invalid request body", <<>>)
               /\ UNCHANGED data
          ELSE IF body.fields["id"] = Undef
          THEN /\ response' = Json(400, "Missing required field: id", <<>>)
               /\ UNCHANGED data
          ELSE LET Test(item) == body.fields["id"].t \in {"number", "string"}
                                 /\ item["id"] = body.fields["id"]
                   itemIndex == FindIndex(Test)
               IN  IF itemIndex = 0
                   THEN /\ response' = Json(404, "Item not found", <<>>)
                        /\ UNCHANGED data
                   ELSE /\ data' = [data EXCEPT ![itemIndex] = Spread(@, body.fields)]
                        /\ response' = Json(200, "Item updated successfully",
                                            <<Spread(data[itemIndex], body.fields)>>)
  /\ UNCHANGED ApiRest

PUT ==
  /\ script = "api"
  /\ \E body \in PutBodies :
       /\ request' = Request("PUT", NoParam, body)
       /\ IF body.json \in {"error", "null"}
          THEN /\ response' = Json(400, "Invalid request body", <<>>)
               /\ UNCHANGED data
          ELSE IF ~Truthy(body.fields["id"])
          THEN /\ response' = Json(400, "Missing required field: id", <<>>)
               /\ UNCHANGED data
          ELSE LET Test(item) == body.fields["id"].t \in {"number", "string"}
                                 /\ item["id"] = body.fields["id"]
                   itemIndex == FindIndex(Test)
               IN  IF itemIndex = 0
                   THEN /\ response' = Json(404, "Item not found", <<>>)
                        /\ UNCHANGED data
                   ELSE /\ data' = [data EXCEPT ![itemIndex] = Spread(@, body.fields)]
                        /\ response' = Json(200, "Item updated successfully",
                                            <<Spread(data[itemIndex], body.fields)>>)
  /\ UNCHANGED ApiRest

\* the handler with every item of the id removed, not the first alone
DELETEAllMatches ==
  /\ script = "api"
  /\ \E id \in IdParams :
       /\ request' = Request("DELETE", id, BadBody)
       /\ IF ~id.given \/ id.v = ""
          THEN /\ response' = Json(400, "Missing required parameter: id", <<>>)
               /\ UNCHANGED data
          ELSE IF \A i \in 1..Len(data) : ~IdIs(data[i], id.v)
               THEN /\ response' = Json(404, "Item not found", <<>>)
                    /\ UNCHANGED data
               ELSE /\ data' = SelectSeq(data, LAMBDA item : ~IdIs(item, id.v))
                    /\ response' = Json(200, "Item deleted successfully", <<>>)
  /\ UNCHANGED ApiRest

DELETE ==
  /\ script = "api"
  /\ \E id \in IdParams :
       /\ request' = Request("DELETE", id, BadBody)
       /\ IF ~id.given \/ id.v = ""
          THEN /\ response' = Json(400, "Missing required parameter: id", <<>>)
               /\ UNCHANGED data
          ELSE LET Test(item) == IdIs(item, id.v)
                   itemIndex == FindIndex(Test)
               IN  IF itemIndex = 0
                   THEN /\ response' = Json(404, "Item not found", <<>>)
                        /\ UNCHANGED data
                   ELSE /\ data' = Splice(data, itemIndex)
                        /\ response' = Json(200, "Item deleted successfully", <<>>)
  /\ UNCHANGED ApiRest

\* the route module loaded, no request served yet
ApiInit ==
  /\ script = "api"
  /\ argv = ""
  /\ fs = EmptyTree
  /\ Fresh

ApiNext ==
  \/ GET
  \/ POST
  \/ PUT
  \/ DELETE

ApiSpec == ApiInit /\ [][ApiNext]_vars


(***************************************************************************)
(* Properties of the functions called repeatedly on one file (FnSpec).     *)
(* hist[1] is the file before the first call, hist[i + 1] the file after   *)
(* call i.                                                                 *)
(***************************************************************************)
\* C1: File Patcher idempotence: for every project name isValidProjectName
\* accepts and every initial content, a second run of updateFile with
\* getReplacements(name) leaves the content equal to the content after the
\* first run.
C1_FilePatcherIdempotent ==
  (/\ script = "fn" /\ pc = "updateFile"
   /\ isValidProjectName(config.projectName)
   /\ Len(hist) >= 3)
  => hist[3] = hist[2]

\* the provider's name and import statement of the injector under test
ProviderOf(fn) == IF fn = "updateLayoutForHeroUI" THEN "HeroUIProvider" ELSE "ChakraProvider"

ProviderImportOf(fn) ==
  IF fn = "updateLayoutForHeroUI"
  THEN "import { HeroUIProvider } from \"@heroui/react\";\n"
  ELSE "import { ChakraProvider } from \"@chakra-ui/react\";\n"

\* C2: Provider Injector idempotence: starting from a layout that does not
\* mention the provider, after any number of calls of updateLayoutForHeroUI
\* (likewise updateLayoutForChakraUI) the file equals the file after the
\* first call, the provider's opening tag occurs at most once and its import
\* statement occurs at most once.
C2_ProviderInjectorIdempotent ==
  (/\ script = "fn"
   /\ pc \in {"updateLayoutForHeroUI", "updateLayoutForChakraUI"}
   /\ hist[1].exists
   /\ ~Includes(hist[1].content, ProviderOf(pc)))
  => \A i \in 2..Len(hist) :
       /\ hist[i] = hist[2]
       /\ Count(hist[i].content, "<" \o ProviderOf(pc) \o ">") <= 1
       /\ Count(hist[i].content, ProviderImportOf(pc)) <= 1

\* C2, its case: the Hero UI injector called at least twice on a layout it
\* changed at the first call, the children wrapped and the import present
C2_Witness ==
  /\ script = "fn" /\ pc = "updateLayoutForHeroUI"
  /\ Len(hist) >= 3
  /\ hist[1].exists /\ ~Includes(hist[1].content, "HeroUIProvider")
  /\ Count(hist[3].content, "<HeroUIProvider>") = 1
  /\ Count(hist[3].content, ProviderImportOf(pc)) = 1

\* C3: SEO layout patch idempotence: a second call of the SEO script's
\* updateLayout leaves the file equal to the file after the first call, and
\* the seoConfig/structured-data import lines occur no more often than
\* after the first call.
C3_SeoLayoutIdempotent ==
  (/\ script = "fn" /\ pc = "updateLayout"
   /\ Len(hist) >= 3)
  => /\ hist[3] = hist[2]
     /\ Count(hist[3].content, SeoImports) <= Count(hist[2].content, SeoImports)


(***************************************************************************)
(* Properties of a run of the SEO script (SeoSpec, FairSourcesSpec).       *)
(***************************************************************************)
SourceRank(source) ==
  CASE source = "argument" -> 1
    [] source = "prompted file" -> 2
    [] source = "interactive" -> 3

\* the template at path exists, parses to a value with the five required
\* non-empty strings, a listed business type and a keyword array
TemplateUsable(path) ==
  LET t == TemplateFile(path)
  IN  /\ t.exists
      /\ t.json \notin {"error", "null"}
      /\ \A i \in 1..Len(RequiredStrings) :
            /\ t.fields[RequiredStrings[i]].t = "string"
            /\ t.fields[RequiredStrings[i]].s # ""
      /\ t.fields["businessType"].s \in validBusinessTypes
      /\ t.fields["keywords"].t = "array"

\* the source consulted gave a config
SourceGave(c) == c.source = "interactive" \/ TemplateUsable(c.path)

AfterSources == {"summary", "generate", "layout", "guide", "done"}

\* the sources are consulted in the order argument, prompted file,
\* interactive; a named --template argument is consulted first; a source is
\* consulted only after every earlier one gave no config; the config the
\* summary shows is the one the last source consulted gave
FallbackOrder ==
  script = "seo" =>
    LET n == Len(consulted)
        last == consulted[n]
    IN  /\ \A i, j \in 1..n :
              i < j => SourceRank(consulted[i].source) < SourceRank(consulted[j].source)
        /\ (getTemplateFromArgs(argv) # "" /\ pc # "start")
             => /\ n >= 1
                /\ consulted[1] = [source |-> "argument", path |-> getTemplateFromArgs(argv)]
        /\ (getTemplateFromArgs(argv) = "" /\ n >= 1) => consulted[1].source # "argument"
        /\ \A i \in 1..(n - 1) : ~SourceGave(consulted[i])
        /\ pc \notin AfterSources => \A i \in 1..n : consulted[i].source = "interactive"
                                                     \/ ~SourceGave(consulted[i])
        /\ pc \in AfterSources
             => /\ n >= 1
                /\ seo.ok
                /\ SourceGave(last)
                /\ IF last.source = "interactive"
                   THEN seo.config = collectedConfig(draft)
                   ELSE \A i \in 1..Len(RequiredStrings) :
                          seo.config[RequiredStrings[i]]
                            = TemplateFile(last.path).fields[RequiredStrings[i]]

C5_ConfirmationGate ==
  (script = "seo" /\ pc \in {"generate", "layout", "guide", "done"})
  => IF toLowerCase(Trim(typed)) = "n"
     THEN /\ pc = "done" /\ exitCode = 0
          /\ writes = <<>>
          /\ \A i \in 1..Len(GeneratedPaths) : ~fs[GeneratedPaths[i]].exists
          /\ ~fs[GuidePath].exists
          /\ ~Includes(fs[LayoutPath].content, SeoImports)
          /\ ~Includes(fs[LayoutPath].content, JsonLdGuard)
          /\ dirs = DirsOf(fs)
          /\ out[Len(out)] = "SEO setup cancelled."
     ELSE /\ \E i \in 1..Len(out) : out[i] = "Generating SEO files..."
          /\ pc \in {"layout", "guide", "done"}
               => \A i \in 1..Len(GeneratedPaths) :
                    /\ fs[GeneratedPaths[i]].exists
                    /\ \E j \in 1..Len(writes) : writes[j] = GeneratedPaths[i]

\* C5, its case: the user answered N and the run is over
C5_Witness ==
  /\ script = "seo" /\ pc = "done"
  /\ typed = " N "
  /\ writes = <<>> /\ exitCode = 0


(***************************************************************************)
(* Properties of a run of the customization script (SetupSpec) and of a    *)
(* run of either script (Spec).                                            *)
(***************************************************************************)
\* the name the run was given: argv[2], or the answer as prompt() trims it
NameGiven == IF argv # "" THEN argv ELSE Trim(typed)

\* empty, whitespace-only or holding a character other than a letter, a
\* digit, a space, a hyphen or an underscore
NameRefused(name) ==
  \/ name = ""
  \/ Trim(name) = ""
  \/ \E i \in 1..Len(name) :
       ~(IsLetter(Ch(name, i)) \/ IsDigit(Ch(name, i)) \/ Ch(name, i) \in {" ", "-", "_"})

\* C6: Project-name gate: a project name that is empty, whitespace-only or
\* holds a character other than letters, digits, space, hyphen or underscore
\* makes the run exit with code 1 before any file is patched, any library
\* selected or any command run; every other name goes on to file patching.
C6_ProjectNameGate ==
  script = "setup" =>
    /\ pc = "patch" => ~NameRefused(NameGiven)
    /\ (pc = "exited" /\ out = <<"Error: Invalid project name">>)
         => /\ NameRefused(NameGiven)
            /\ exitCode = 1
            /\ writes = <<>> /\ cmds = <<>>
            /\ config.componentLibrary = ""

\* C7: shadcn scaffold adds are independent: when the add command of one
\* component fails, the run goes on and has attempted the add of every one
\* of the six components by the time it shows the setup instructions.
C7_ShadcnAddsIndependent ==
  (/\ script = "setup"
   /\ config.componentLibrary = "shadcn"
   /\ pc \in {"instructions", "summary", "done"}
   /\ \E i \in 1..Len(cmds) : cmds[i] = [cmd |-> "npx shadcn@latest init -y -d", ok |-> TRUE])
  => \A k \in 1..Len(ShadcnComponents) :
       \E i \in 1..Len(cmds) :
         cmds[i].cmd = "npx shadcn@latest add " \o ShadcnComponents[k] \o " -y"

\* C8: Missing layout is never fatal for provider injection: with
\* src/app/layout.tsx absent and Hero UI or Chakra UI chosen, the run exits
\* early only because a command failed, never because of the layout.
C8_MissingLayoutNotFatal ==
  (/\ script = "setup"
   /\ config.componentLibrary \in {"heroui", "chakra"}
   /\ ~fs[LayoutPath].exists
   /\ pc = "exited")
  => cmds # <<>> /\ ~cmds[Len(cmds)].ok

\* the SEO layout step on an absent layout writes nothing and goes on to the
\* guide; the tailwind step on an absent config writes nothing and goes on
\* to the setup instructions; the guide step writes the guide and ends the run
SkipsMissingFile ==
  /\ (script = "seo" /\ pc = "layout" /\ ~fs[LayoutPath].exists)
       => (fs' = fs /\ writes' = writes /\ pc' = "guide" /\ exitCode' = exitCode)
  /\ (script = "seo" /\ pc = "guide")
       => (fs'[GuidePath].exists /\ pc' = "done" /\ exitCode' = 0)
  /\ (script = "setup" /\ pc = "tailwind" /\ ~fs[TailwindPath].exists)
       => (fs' = fs /\ writes' = writes /\ pc' = "instructions" /\ exitCode' = exitCode)

\* a file that is absent was not written, and the SEO run never aborts
AbsentUnwritten ==
  /\ \A i \in 1..Len(writes) : fs[writes[i]].exists
  /\ script = "seo" => pc # "exited" /\ exitCode \in {-1, 0}

\* C9: Missing files are skipped by the SEO layout patch and the tailwind
\* patch: with src/app/layout.tsx absent the SEO updateLayout writes nothing
\* and the run still writes the guide and finishes; with tailwind.config.ts
\* absent updateTailwindConfig writes nothing and the customization run
\* goes on.
C9_MissingFilesSkipped == [][SkipsMissingFile]_vars /\ []AbsentUnwritten

\* C9, its case: an SEO run that finished with the guide written and no
\* layout in the tree
C9_Witness ==
  /\ script = "seo" /\ pc = "done"
  /\ ~fs[LayoutPath].exists
  /\ fs[GuidePath].exists
  /\ \E i \in 1..Len(out) : out[i] = "layout.tsx not found"

\* position i of cmds is an npm install that failed
InstallFailedAt(i) == startsWith(cmds[i].cmd, "npm install ") /\ ~cmds[i].ok

\* C10: Fatal install failure: when the npm install run by installPackages
\* fails, the process exits with a non-zero code after the manual-fallback
\* message, no later step of setupComponentLibrary runs (no command, no
\* layout or tailwind patch, no instructions, no summary) and the files
\* written before stay as they are.
C10_FatalInstallFailure ==
  (script = "setup" /\ \E i \in 1..Len(cmds) : InstallFailedAt(i))
  => /\ InstallFailedAt(Len(cmds))
     /\ pc = "exited" /\ exitCode # 0 /\ exitCode # -1
     /\ out[Len(out)] = "Error installing packages. Please try manually"
     /\ \A i \in 1..Len(out) :
           /\ out[i] \notin {"Updated layout.tsx", "already configured",
                              "Updated tailwind.config.ts", "tailwind.config.ts not found",
                              "Installing common components...", "Setup complete!"}
           /\ ~startsWith(out[i], "Instructions: ")
     /\ \A i \in 1..Len(writes) : writes[i] # TailwindPath
     /\ ~ENABLED SetupNext

\* C10, its case: the install failed after the patcher had written files
C10_Witness ==
  /\ script = "setup" /\ pc = "exited"
  /\ cmds # <<>> /\ InstallFailedAt(Len(cmds))
  /\ writes # <<>>

\* C11: Library choice "none" performs no package installation: in a run
\* with a valid project name and the choice "none" no package-manager
\* install and no scaffold command is ever run, and a run that ends has
\* patched the fixed file list.
C11_NoneInstallsNothing ==
  (script = "setup" /\ config.componentLibrary = "none")
  => /\ cmds = <<>>
     /\ pc # "exited"

\* an npm ci or npm install that failed is the last command run
InstallCommandFailed ==
  /\ cmds # <<>>
  /\ ~cmds[Len(cmds)].ok
  /\ \/ cmds[Len(cmds)].cmd = "npm ci"
     \/ startsWith(cmds[Len(cmds)].cmd, "npm install ")

\* C12: Customization script exit code: a run that has ended has exit code 1
\* exactly when the project name was invalid or a package install command
\* failed, and exit code 0 otherwise, also when a patched file, the layout
\* or the tailwind config is absent or a shadcn command failed.
C12_SetupExitCode ==
  (script = "setup" /\ pc \in {"exited", "done"})
  => IF config.projectName = "" \/ InstallCommandFailed
     THEN exitCode = 1
     ELSE exitCode = 0

(***************************************************************************)
(* Properties of the SeoConfig a run of the SEO script works with          *)
(* (SeoSpec).                                                              *)
(***************************************************************************)
\* the steps that run the generators on seo.config, and the end of a run
\* that ran them
Generating == pc \in {"generate", "layout", "guide"} \/ (pc = "done" /\ writes # <<>>)

\* C13: siteUrl normalization: the SeoConfig of the summary and of the
\* generators, from loadTemplateFile or from collectSeoInfo, holds a siteUrl
\* without a trailing slash, and the generated robots file names no
\* "//sitemap.xml".
C13_SiteUrlNormalized ==
  (script = "seo" /\ pc \in AfterSources)
  => /\ LET url == seo.config["siteUrl"].s
        IN  url = "" \/ Ch(url, Len(url)) # "/"
     /\ fs["src/app/robots.ts"].exists
          => ~Includes(fs["src/app/robots.ts"].content, "//sitemap.xml")

\* C14: Required SeoConfig fields: the SeoConfig the generators run on, from
\* either producer, holds non-empty strings for siteName, siteTagline,
\* siteUrl, author and businessType.
C14_RequiredFieldsPresent ==
  (script = "seo" /\ Generating)
  => \A i \in 1..Len(RequiredStrings) :
       /\ seo.config[RequiredStrings[i]].t = "string"
       /\ seo.config[RequiredStrings[i]].s # ""

\* the number an answer to the business type menu stands for is in 1..6
ChoiceInRange(answer) ==
  LET n == parseInt(Trim(answer))
  IN  ~n.nan /\ n.n \in 1..6

\* a round of the business type prompt ends the loop exactly when the
\* answer is a choice in 1..6, and repeats the prompt otherwise
PromptRepeats ==
  (script = "seo" /\ pc = "businessType")
  => /\ pc' \in {"businessType", "keywords"}
     /\ pc' = "keywords" <=> ChoiceInRange(typed')
     /\ pc' = "keywords" => draft'.businessType \in validBusinessTypes

\* the config of the summary and of generation has a listed business type
\* and an array of keywords
TypeListed ==
  (script = "seo" /\ pc \in AfterSources)
  => /\ seo.config["businessType"].t = "string"
     /\ seo.config["businessType"].s \in
          {"blog", "ecommerce", "portfolio", "saas", "corporate", "other"}
     /\ seo.config["keywords"].t = "array"

\* C15: businessType invariant: in every SeoConfig of the summary and the
\* generation steps, by either producer, businessType is one of blog,
\* ecommerce, portfolio, saas, corporate, other and keywords is an array;
\* the business type prompt repeats until a choice in 1..6 is entered.
C15_BusinessTypeListed == []TypeListed /\ [][PromptRepeats]_vars

\* C15, its case: an interactive run that entered a choice outside 1..6
\* first and then chose a business type, at the summary
C15_Witness ==
  /\ script = "seo" /\ pc = "summary"
  /\ consulted[Len(consulted)].source = "interactive"
  /\ retries > 0
  /\ seo.config["businessType"].s = "other"
  /\ seo.config["keywords"] = Arr(<<>>)

(***************************************************************************)
(* What the documentation of the template asks of a candidate: the five    *)
(* required fields are non-empty strings, businessType is one of the six   *)
(* listed values and keywords is an array.                                 *)
(***************************************************************************)
PresentString(v) == v.t = "string" /\ Len(v.s) > 0

Acceptable(c) ==
  /\ PresentString(c["siteName"])
  /\ PresentString(c["siteTagline"])
  /\ PresentString(c["siteUrl"])
  /\ PresentString(c["author"])
  /\ PresentString(c["businessType"])
  /\ c["businessType"].s \in {"blog", "ecommerce", "portfolio", "saas", "corporate", "other"}
  /\ c["keywords"].t = "array"

ValidatorCalled == script = "seofn" /\ pc = "validateSeoConfig" /\ Len(hist) > 1

\* C16: validateSeoConfig returns true exactly when the five required fields
\* of the candidate are present non-empty strings, businessType is one of the
\* six enumerated values and keywords is an array, and false otherwise; the
\* candidate after every call is the candidate before the first.
C16_ValidateAccepts ==
  ValidatorCalled
  => /\ seo.ok = Acceptable(hist[1].fields)
     /\ \A i \in 1..Len(hist) : hist[i] = hist[1]
     /\ seo.config = hist[1].fields

\* an accepted candidate that carries every optional field the set offers
C16_Witness ==
  /\ ValidatorCalled
  /\ seo.ok
  /\ hist[1].fields["businessType"] = Str("other")
  /\ hist[1].fields["keywords"] = Arr(<<"a">>)
  /\ hist[1].fields["locale"] = Str("fr")
  /\ out = <<>>

\* the message validateSeoConfig prints for a required field
RequiredMessage(k) == k \o " is required and must be a string"

EnumMessage ==
  "businessType must be one of: blog, ecommerce, portfolio, saas, corporate, other"

Printed(msg) == \E i \in 1..Len(out) : out[i] = msg

\* the checks the candidate c violates, each by the message that reports it
Violations(c) ==
  {RequiredMessage(k) : k \in {f \in {"siteName", "siteTagline", "siteUrl", "author",
                                      "businessType"} : ~PresentString(c[f])}}
  \cup (IF Truthy(c["businessType"])
           /\ ~(c["businessType"].t = "string"
                /\ c["businessType"].s \in {"blog", "ecommerce", "portfolio", "saas",
                                            "corporate", "other"})
        THEN {EnumMessage} ELSE {})
  \cup (IF c["keywords"].t # "array" THEN {"keywords must be an array"} ELSE {})

\* C17: on a failing candidate the printed error list holds one message for
\* each violated check (each missing or non-string required field, a
\* businessType outside the six options, named in the message, and keywords
\* that is no array), all of them and no other; after one call each message
\* stands once under the header.
C17_EveryViolationReported ==
  ValidatorCalled
  => /\ \A msg \in Violations(hist[1].fields) : Printed(msg)
     /\ \A i \in 1..Len(out) :
          out[i] \in Violations(hist[1].fields) \cup {"Template validation errors"}
     /\ Violations(hist[1].fields) # {} => ~seo.ok /\ out[1] = "Template validation errors"
     /\ Len(hist) = 2 /\ ~seo.ok => Len(out) = 1 + Cardinality(Violations(hist[1].fields))

\* a candidate without siteName, with businessType "invalid" and keywords a
\* string: three violations, three messages
C17_Witness ==
  /\ ValidatorCalled
  /\ Len(hist) = 2
  /\ hist[1].fields["siteName"] = Undef
  /\ hist[1].fields["businessType"] = Str("invalid")
  /\ out = <<"Template validation errors", "siteName is required and must be a string",
             EnumMessage, "keywords must be an array">>

\* the kinds of failure of a template: no file, content that is no JSON,
\* JSON that is no object, an object that fails validation
TemplateFailure(path) ==
  LET t == TemplateFile(path)
  IN  CASE ~t.exists -> "missing"
        [] t.json = "error" -> "syntax"
        [] t.json \in {"null", "scalar"} -> "not an object"
        [] ~Acceptable(t.fields) -> "invalid"
        [] OTHER -> "none"

\* the step consults a template file, named by argument or at the prompt
LoadsTemplate ==
  /\ Len(consulted') = Len(consulted) + 1
  /\ consulted'[Len(consulted')].source \in {"argument", "prompted file"}

\* a load that fails returns null to runSeoSetup, which prints the fallback
\* and goes on to the next source with nothing written; no load ends the run
FailedLoadFallsBack ==
  LoadsTemplate
  => LET c == consulted'[Len(consulted')]
     IN  IF TemplateFailure(c.path) = "none"
         THEN seo'.ok /\ pc' = "summary"
         ELSE /\ ~seo'.ok
              /\ seo'.config = Object(<<>>)
              /\ pc' = IF c.source = "argument" THEN "askTemplate" ELSE "collect"
              /\ out'[Len(out')] = "Falling back to interactive mode..."
              /\ exitCode' = -1
              /\ writes' = <<>> /\ writes = <<>>
              /\ fs' = fs /\ dirs' = dirs

NoUncaughtError ==
  script = "seo"
  => /\ pc # "exited"
     /\ exitCode # 1
     /\ \A i \in 1..Len(out) : out[i] # "Error during SEO setup"

\* C18: loadTemplateFile returns null and never throws when the file is
\* missing, when its content is not valid JSON or is JSON that is no object,
\* and when validation fails; in each case no file is written and
\* runSeoSetup falls back to the next input source (the prompt for a
\* template after the argument, the interactive questions after the prompt).
C18_LoaderFailuresAreValues == [][FailedLoadFallsBack]_vars /\ []NoUncaughtError

\* malformed JSON named by the argument, then JSON null named at the prompt:
\* both loads failed and the run stands at the interactive questions
C18_Witness ==
  /\ script = "seo"
  /\ Len(consulted) = 2
  /\ TemplateFailure(consulted[1].path) = "syntax"
  /\ TemplateFailure(consulted[2].path) = "not an object"
  /\ pc = "collect"
  /\ ~seo.ok
  /\ writes = <<>>
  /\ exitCode = -1

LoaderCalled == script = "seofn" /\ pc = "loadTemplateFile" /\ Len(hist) > 1

\* the template is an object that passes validation
LoadsAcceptable == LoaderCalled /\ hist[1].json = "object" /\ Acceptable(hist[1].fields)

\* the template gives the field k a value
Supplied(k) == hist[1].fields[k].t # "undefined"

\* the template gives the field k a value other than null, "" and 0
SuppliedNonEmpty(k) ==
  /\ hist[1].fields[k].t \notin {"undefined", "null"}
  /\ hist[1].fields[k] \notin {Str(""), Num("0")}

\* the result carries the required fields of the template and neither
\* _comments nor $schema
ResultStripped ==
  /\ seo.ok
  /\ \A k \in {"siteName", "siteTagline", "siteUrl", "author", "businessType", "keywords"} :
        seo.config[k] = hist[1].fields[k]
  /\ seo.config["_comments"] = Undef
  /\ seo.config["$schema"] = Undef

\* C19 as stated: loadTemplateFile accepts a template with the required
\* fields and returns it with locale "en" and social {} where the template
\* has none, every locale or social the template supplies unchanged, and
\* without _comments and $schema.
C19_SuppliedReturnedUnchanged ==
  LoadsAcceptable
  => /\ ResultStripped
     /\ seo.config["locale"] = IF Supplied("locale") THEN hist[1].fields["locale"] ELSE Str("en")
     /\ seo.config["social"] = IF Supplied("social") THEN hist[1].fields["social"]
                               ELSE Obj(NoSocial)

\* C19 amended: loadTemplateFile accepts a template with the required fields
\* and returns it without _comments and $schema; a locale or social the
\* template supplies with a value other than null, "" and 0 is returned
\* unchanged, and every other template gets locale "en" and social {}.
C19_TemplateDefaults ==
  LoadsAcceptable
  => /\ ResultStripped
     /\ seo.config["locale"] = IF SuppliedNonEmpty("locale") THEN hist[1].fields["locale"]
                               ELSE Str("en")
     /\ seo.config["social"] = IF SuppliedNonEmpty("social") THEN hist[1].fields["social"]
                               ELSE Obj(NoSocial)

\* the minimal template of the documentation, loaded
C19_Witness ==
  /\ LoaderCalled
  /\ hist[1] = JsonObject(MinimalTemplate)
  /\ seo.ok
  /\ seo.config["locale"] = Str("en")
  /\ seo.config["social"] = Obj(NoSocial)
  /\ out = <<>>

\* updateFile was called on a path where no file stands
PatchedAbsent ==
  /\ script = "fn" /\ pc = "updateFile"
  /\ Len(hist) > 1
  /\ ~hist[1].exists

\* C20: updateFile on a nonexistent path returns false, never throws and
\* creates or writes no file, for every rule list: the path stays absent
\* after every call, nothing is written, each call logs the warning and the
\* run goes on.
C20_AbsentFileNotPatched ==
  PatchedAbsent
  => /\ ~updateFile(hist[1], getReplacements(config.projectName)).ret
     /\ ~updateFile(hist[1], getReplacements(config.projectName)).wrote
     /\ \A i \in 1..Len(hist) : hist[i] = NoFile
     /\ fs = EmptyTree
     /\ writes = <<>>
     /\ Len(out) = Len(hist) - 1
     /\ \A i \in 1..Len(out) : out[i] = "File not found"
     /\ exitCode = -1

\* the absent file after MaxCalls calls with the rules of a two-word name
C20_Witness ==
  /\ PatchedAbsent
  /\ Len(hist) = MaxCalls + 1
  /\ config.projectName = "Acme Store"
  /\ fs["README.md"] = NoFile
  /\ out[Len(out)] = "File not found"

\* sub occurs literally in s
Occurs(sub, s) ==
  \E i \in 1..(Len(s) - Len(sub) + 1) : SubSeq(s, i, i + Len(sub) - 1) = sub

\* s cut at every occurrence of sep, read from the left
RECURSIVE SplitOn(_, _)
SplitOn(s, sep) ==
  IF ~Occurs(sep, s) THEN <<s>>
  ELSE LET i == CHOOSE j \in 1..Len(s) :
                  /\ SubSeq(s, j, j + Len(sep) - 1) = sep
                  /\ \A k \in 1..(j - 1) : SubSeq(s, k, k + Len(sep) - 1) # sep
       IN  <<SubSeq(s, 1, i - 1)>> \o SplitOn(SubSeq(s, i + Len(sep), Len(s)), sep)

\* the pieces put together again with glue between them
RECURSIVE Glue(_, _)
Glue(pieces, glue) ==
  IF Len(pieces) = 1 THEN pieces[1]
  ELSE pieces[1] \o glue \o Glue(Tail(pieces), glue)

\* the content as it stands when rule i is applied; stage Len(rules) + 1 is
\* the content after the last rule
RECURSIVE Stages(_, _)
Stages(content, rules) ==
  IF rules = <<>> THEN <<content>>
  ELSE LET from == rules[1].from
           next == IF Occurs(from, content)
                   THEN Glue(SplitOn(content, from), rules[1].to)
                   ELSE content
       IN  <<content>> \o Stages(next, Tail(rules))

\* a step of updateFile on a file that exists
PatchesExisting ==
  /\ script = "fn" /\ pc = "updateFile"
  /\ Len(hist') = Len(hist) + 1
  /\ hist[Len(hist)].exists

WritesOnlyOnMatch ==
  PatchesExisting
  => LET rules == getReplacements(config.projectName)
         before == hist[Len(hist)]
         st == Stages(before.content, rules)
         matched == \E i \in 1..Len(rules) : Occurs(rules[i].from, st[i])
         r == updateFile(before, rules)
     IN  /\ r.ret = matched
         /\ r.wrote = matched
         /\ IF matched
            THEN /\ writes' = Append(writes, "README.md")
                 /\ fs'["README.md"] = File(st[Len(rules) + 1])
                 /\ out'[Len(out')] = "Updated"
            ELSE /\ writes' = writes
                 /\ fs' = fs
                 /\ out'[Len(out')] = "No changes needed"
         /\ hist'[Len(hist')] = fs'["README.md"]

\* C21: for an existing file, updateFile writes the file and returns true
\* exactly when the from text of at least one rule occurs literally in the
\* content as it stands when that rule is applied; otherwise the file is
\* left untouched and false is returned; each matching rule replaces every
\* occurrence of its from text.
C21_WritesOnlyOnMatch == [][WritesOnlyOnMatch]_vars

\* a file with the heading twice: one call replaced both and wrote the file
C21_Witness ==
  /\ script = "fn" /\ pc = "updateFile"
  /\ Len(hist) = 2
  /\ hist[1] = File("# Next.js Template" \o "# Next.js Template")
  /\ config.projectName = "Acme Store"
  /\ fs["README.md"] = File("# Acme Store# Acme Store")
  /\ writes = <<"README.md">>

\* the number an answer starts with, blanks aside: the decimal digits up to
\* the first character that is none; -1 when it starts with no digit
LeadingNumber(answer) ==
  LET digits == "0123456789"
      isDigit(i) == \E d \in 1..10 : SubSeq(digits, d, d) = SubSeq(answer, i, i)
      valueAt(i) == CHOOSE d \in 0..9 : SubSeq(digits, d + 1, d + 1) = SubSeq(answer, i, i)
      blanks == {i \in 1..Len(answer) : \A j \in 1..i : SubSeq(answer, j, j) = " "}
      first == Cardinality(blanks) + 1
      run == {i \in first..Len(answer) : \A j \in first..i : isDigit(j)}
      last == first + Cardinality(run) - 1
      val[i \in (first - 1)..last] == IF i < first THEN 0 ELSE 10 * val[i - 1] + valueAt(i)
  IN  IF run = {} THEN -1 ELSE val[last]

\* the answer is a 1-based index into the menu of four
ValidIndex(answer) == LeadingNumber(answer) \in 1..4

CountOf(msg, log) == Cardinality({i \in 1..Len(log) : log[i] = msg})

\* one round of the loop: a valid index returns the key at that position;
\* any other answer prints the complaint alone and stays in the loop
ChoiceRound ==
  (script = "setup" /\ pc = "choose")
  => IF ValidIndex(typed')
     THEN /\ pc' = "npmci"
          /\ config'.componentLibrary =
               <<"none", "heroui", "shadcn", "chakra">>[LeadingNumber(typed')]
          /\ out' = out
     ELSE /\ pc' = "choose"
          /\ config' = config
          /\ out' = Append(out, "Invalid choice. Please enter a number between 1 and 4.")
          /\ retries' = retries + 1
          /\ exitCode' = -1
          /\ cmds' = cmds /\ fs' = fs

\* inside the loop the run is alive, no library is chosen, the menu was
\* printed once and each bad answer so far has its complaint
InsideLoop ==
  (script = "setup" /\ pc = "choose")
  => /\ exitCode = -1
     /\ config.componentLibrary = ""
     /\ CountOf("Select a Component Library", out) = 1
     /\ CountOf("Invalid choice. Please enter a number between 1 and 4.", out) = retries

\* C22: selectComponentLibrary returns only after an answer that is a valid
\* 1-based index into the menu (1..4), with the key at that position of
\* (none, heroui, shadcn, chakra); every other answer re-issues the choice
\* prompt without reprinting the menu and without ending the run or leaving
\* the loop, however many bad answers came before.
C22_LibraryRetryLoop == [][ChoiceRound]_vars /\ []InsideLoop

\* two bad answers in a row, then the fourth entry chosen
C22_Witness ==
  /\ script = "setup" /\ pc = "npmci"
  /\ retries = 2
  /\ typed = "4"
  /\ config.componentLibrary = "chakra"
  /\ CountOf("Select a Component Library", out) = 1

\* the step of setupComponentLibrary a position of the setup run belongs
\* to: 1 regular packages, 2 dev packages, 3 custom setup, 4 instructions,
\* 5 back in setup(); 0 before the call
LibraryStep(at) ==
  CASE at = "library" -> 1
    [] at = "devPackages" -> 2
    [] at \in {"customSetup", "tailwind", "shadcnAdd"} -> 3
    [] at = "instructions" -> 4
    [] at \in {"summary", "done"} -> 5
    [] OTHER -> 0

\* the npm install command of the regular packages of a library, "" for none
RegularInstall(key) ==
  CASE key = "heroui" -> "npm install @heroui/react framer-motion"
    [] key = "chakra" ->
         "npm install @chakra-ui/react @emotion/react @emotion/styled framer-motion"
    [] OTHER -> ""

IsInstall(c) == Len(c.cmd) >= 11 /\ SubSeq(c.cmd, 1, 11) = "npm install"
IsNpx(c) == Len(c.cmd) >= 4 /\ SubSeq(c.cmd, 1, 4) = "npx "

\* setupComponentLibrary("none"): the skip message and nothing else
NoneSkips ==
  (script = "setup" /\ pc = "library" /\ config.componentLibrary = "none")
  => /\ pc' = "summary"
     /\ out' = Append(out, "Skipping component library installation.")
     /\ cmds' = cmds /\ fs' = fs /\ writes' = writes /\ dirs' = dirs
     /\ exitCode' = -1

\* a step of setupComponentLibrary for a library: it stays in its step,
\* hands over to the next one or ends the run; installs run commands and
\* touch no file, and with an empty list they run none; the custom setup
\* runs no npm install; the instructions only print
StepsInOrder ==
  (script = "setup" /\ LibraryStep(pc) \in 1..4 /\ config.componentLibrary # "none")
  => /\ \/ pc' = "exited" /\ exitCode' = 1 /\ LibraryStep(pc) \in 1..3
        \/ LibraryStep(pc') = LibraryStep(pc) /\ LibraryStep(pc) = 3
        \/ LibraryStep(pc') = LibraryStep(pc) + 1
     /\ LibraryStep(pc) = 1 =>
          /\ fs' = fs /\ writes' = writes
          /\ IF RegularInstall(config.componentLibrary) = ""
             THEN cmds' = cmds /\ out' = out /\ pc' = "devPackages"
             ELSE /\ Len(cmds') = Len(cmds) + 1
                  /\ cmds'[Len(cmds')].cmd = RegularInstall(config.componentLibrary)
                  /\ cmds'[Len(cmds')].ok <=> pc' = "devPackages"
     /\ LibraryStep(pc) = 2 =>
          /\ fs' = fs /\ writes' = writes /\ cmds' = cmds /\ out' = out
          /\ pc' = "customSetup"
     /\ LibraryStep(pc) = 3 =>
          /\ \A i \in 1..Len(cmds') : i > Len(cmds) => IsNpx(cmds'[i])
          /\ \A i \in 1..Len(writes') :
                i > Len(writes) => writes'[i] \in {"src/app/layout.tsx", "tailwind.config.ts"}
     /\ LibraryStep(pc) = 4 =>
          /\ fs' = fs /\ writes' = writes /\ cmds' = cmds
          /\ out' = Append(out, "Instructions: "
                                  \o (CASE config.componentLibrary = "heroui" -> "Hero UI"
                                        [] config.componentLibrary = "shadcn" -> "shadcn/ui"
                                        [] config.componentLibrary = "chakra" -> "Chakra UI"))

\* the commands of a run stand in the order npm ci, npm install, npx; no
\* command installs dev packages, as every list of them is empty; the
\* instructions are printed after all of them
CommandsInOrder ==
  script = "setup"
  => /\ \A i, j \in 1..Len(cmds) :
          i < j => /\ cmds[j].cmd # "npm ci"
                   /\ ~(IsNpx(cmds[i]) /\ IsInstall(cmds[j]))
                   /\ ~(IsInstall(cmds[i]) /\ IsInstall(cmds[j]))
                   /\ cmds[i].ok \/ IsNpx(cmds[i])
     /\ \A i \in 1..Len(cmds) :
          /\ IsInstall(cmds[i]) => cmds[i].cmd = RegularInstall(config.componentLibrary)
          /\ IsNpx(cmds[i]) => config.componentLibrary = "shadcn" /\ LibraryStep(pc) >= 3
     /\ (\E i \in 1..Len(out) : Len(out[i]) > 14 /\ SubSeq(out[i], 1, 14) = "Instructions: ")
          => LibraryStep(pc) = 5

\* C23: setupComponentLibrary for key "none" installs, patches and prints
\* nothing beyond the skip message; for every other key the steps occur in
\* the order regular-package install, dev-package install, custom setup,
\* setup instructions, each starting only after the one before completed,
\* and an install step with an empty package list invokes no command.
C23_LibrarySetupOrder ==
  [][NoneSkips]_vars /\ [][StepsInOrder]_vars /\ []CommandsInOrder

\* Hero UI set up to the end: packages installed, layout and tailwind
\* patched, instructions printed, no dev install in between
C23_Witness ==
  /\ script = "setup" /\ pc = "summary"
  /\ config.componentLibrary = "heroui"
  /\ cmds = <<[cmd |-> "npm ci", ok |-> TRUE],
              [cmd |-> "npm install @heroui/react framer-motion", ok |-> TRUE]>>
  /\ \E i, j \in 1..Len(writes) :
        i < j /\ writes[i] = "src/app/layout.tsx" /\ writes[j] = "tailwind.config.ts"
  /\ out[Len(out)] = "Instructions: Hero UI"

\* the phase of setup() a position belongs to: 1 file patching, 2 library
\* selection, 3 dependency reinstall, 4 library install and setup, 5 summary,
\* 6 the end; 0 while the project name is asked for
Phase(at) ==
  CASE at = "patch" -> 1
    [] at \in {"select", "choose"} -> 2
    [] at = "npmci" -> 3
    [] at \in {"library", "devPackages", "customSetup", "tailwind", "shadcnAdd",
               "instructions"} -> 4
    [] at = "summary" -> 5
    [] at = "done" -> 6
    [] OTHER -> 0

SixFiles ==
  <<"README.md", "package.json", "src/app/layout.tsx", "src/app/page.tsx",
    "src/app/about/page.tsx", "src/app/dashboard/settings/page.tsx">>

\* the line of the log that closes a phase, by phase
PhaseMark(p) ==
  CASE p = 1 -> "Updated file(s) with your project name"
    [] p = 2 -> "Select a Component Library"
    [] p = 3 -> "Dependencies cleaned and installed successfully!"
    [] p = 5 -> "Setup complete!"

MarkAt(p) == {i \in 1..Len(out) : out[i] = PhaseMark(p)}

EndsWith(line, tail) ==
  Len(line) >= Len(tail) /\ SubSeq(line, Len(line) - Len(tail) + 1, Len(line)) = tail

\* a step of a run with a valid name stays in its phase, enters the next
\* one or ends the run with 1; the patch phase goes once over the six files
\* in their order, one status line each
NoBacktracking ==
  (script = "setup" /\ Phase(pc) \in 1..5)
  => /\ \/ pc' = "exited" /\ exitCode' = 1 /\ Phase(pc) \in {3, 4}
        \/ Phase(pc') = Phase(pc) /\ Phase(pc) \in {2, 4}
        \/ Phase(pc') = Phase(pc) + 1
     /\ Phase(pc) = 1 =>
          /\ Len(out') = Len(out) + 7
          /\ \A i \in 1..6 : EndsWith(out'[Len(out) + i], ": " \o SixFiles[i])
          /\ \A i \in 1..Len(writes') : writes'[i] \in {SixFiles[j] : j \in 1..6}
          /\ cmds' = cmds
     /\ Phase(pc) # 1 =>
          \A i \in 1..Len(out') :
             i > Len(out) => out'[i] # "Updated file(s) with your project name"

\* the marks of the phases stand in the log once each and in phase order,
\* and a phase is entered only with the marks of the phases before it
PhasesInOrder ==
  (script = "setup" /\ Phase(pc) >= 1)
  => /\ \A p \in {1, 2, 3, 5} : Cardinality(MarkAt(p)) <= 1
     /\ \A p, q \in {1, 2, 3, 5} :
          p < q => \A i \in MarkAt(p), j \in MarkAt(q) : i < j
     /\ \A p \in {1, 2, 3} : Phase(pc) > p => MarkAt(p) # {}
     /\ Phase(pc) <= 2 => cmds = <<>>
     /\ Phase(pc) <= 3 => config.componentLibrary = "" \/ Phase(pc) = 3

\* the summary stands in the log only at the end of a run whose phases all
\* completed: a name, a library, the reinstall done, no install failed
SummaryLast ==
  (script = "setup" /\ MarkAt(5) # {})
  => /\ pc = "done" /\ exitCode = 0
     /\ MarkAt(5) = {Len(out)}
     /\ config.projectName # ""
     /\ config.componentLibrary \in {"none", "heroui", "shadcn", "chakra"}
     /\ MarkAt(1) # {} /\ MarkAt(2) # {} /\ MarkAt(3) # {}
     /\ cmds # <<>> /\ cmds[1] = [cmd |-> "npm ci", ok |-> TRUE]
     /\ \A i \in 1..Len(cmds) : IsInstall(cmds[i]) => cmds[i].ok

TextOf(path) == IF fs[path].exists THEN fs[path].content ELSE ""

\* the generation step has written its files from the config of the summary
FilesGenerated == script = "seo" /\ pc \in {"layout", "guide", "done"} /\ writes # <<>>

IsBlog == seo.config["businessType"] = Str("blog")

\* the structured-data module has the article helper exactly for a blog,
\* the sitemap changes daily for a blog and weekly otherwise, and the guide,
\* once written, has the blog walkthrough exactly for a blog
GatedOnBlog ==
  FilesGenerated
  => /\ Occurs("export function getArticleSchema(", TextOf("src/lib/structured-data.tsx"))
          <=> IsBlog
     /\ Occurs("changeFrequency: \"daily\"", TextOf("src/app/sitemap.ts")) <=> IsBlog
     /\ Occurs("changeFrequency: \"weekly\"", TextOf("src/app/sitemap.ts")) <=> ~IsBlog
     /\ pc = "done" =>
          /\ fs["docs/SEO_GUIDE.md"].exists
          /\ Occurs("## Blog Post SEO", TextOf("docs/SEO_GUIDE.md")) <=> IsBlog

\* C25: for every valid SeoConfig the generated structured-data module
\* contains the article-schema helper and the guide contains the blog
\* walkthrough exactly when businessType is "blog", and the change frequency
\* of the generated sitemap is "daily" for "blog" and "weekly" for each of
\* the other five values.
C25_BlogGatedGeneration == GatedOnBlog

\* a finished run for a blog, with helper, walkthrough and daily sitemap
C25_Witness ==
  /\ FilesGenerated /\ pc = "done"
  /\ IsBlog
  /\ Occurs("export function getArticleSchema(", TextOf("src/lib/structured-data.tsx"))
  /\ Occurs("## Blog Post SEO", TextOf("docs/SEO_GUIDE.md"))
  /\ Occurs("changeFrequency: \"daily\"", TextOf("src/app/sitemap.ts"))

\* a JSON value that counts as given: not undefined, null, "" or 0
Given(v) == v.t \notin {"undefined", "null"} /\ v \notin {Str(""), Num("0")}

\* the request of the step is a METHOD request
Serves(method) == script = "api" /\ request'.method = method

\* the POST of the step has a body with name and description given
PostsItem ==
  /\ request'.body.json = "object"
  /\ Given(request'.body.fields["name"])
  /\ Given(request'.body.fields["description"])

\* a POST with name and description appends one item with those values
\* behind the items there are and answers 201; any other POST answers 400
\* and leaves the store as it is
CreatesItem ==
  Serves("POST")
  => IF PostsItem
     THEN /\ Len(data') = Len(data) + 1
          /\ SubSeq(data', 1, Len(data)) = data
          /\ data'[Len(data')]["name"] = request'.body.fields["name"]
          /\ data'[Len(data')]["description"] = request'.body.fields["description"]
          /\ response'.status = 201
          /\ response'.items = <<data'[Len(data')]>>
     ELSE /\ response'.status = 400
          /\ data' = data

\* C26: a POST on /api/data whose body has truthy name and description
\* appends exactly one item carrying those values to the store, leaves the
\* existing items unchanged and responds 201; a POST with a missing field
\* or an unparsable body responds 400 and leaves the store unchanged.
C26_PostCreatesItem == [][CreatesItem]_vars

\* a fourth item created behind the three the store starts with
C26_Witness ==
  /\ script = "api"
  /\ request.method = "POST"
  /\ response.status = 201
  /\ Len(data) = 4
  /\ SubSeq(data, 1, 3) = SeedData
  /\ data[4]["name"] = Str("New") /\ data[4]["description"] = Str("Made")

\* the id a request asks for in its id parameter: the number the text
\* starts with, as parseInt reads it ("2x" asks for 2); no id when the
\* parameter is absent, empty or starts with no digit
AsksFor(p) ==
  IF ~p.given \/ p.v = "" \/ LeadingNumber(p.v) < 0 THEN Undef
  ELSE Num(ToDecimal(LeadingNumber(p.v)))

\* the positions of the items with the id k
Holding(items, k) == {i \in 1..Len(items) : items[i]["id"] = k}

\* items without the one at position i
Without(items, i) == [j \in 1..(Len(items) - 1) |-> IF j < i THEN items[j] ELSE items[j + 1]]

\* a DELETE without id answers 400, one for an id no item has answers 404,
\* both with the store as it was; one for the id of an item removes one item
\* of that id and leaves every other item, in order
DeletesItem ==
  Serves("DELETE")
  => LET p == request'.id
         k == AsksFor(p)
     IN  IF ~p.given \/ p.v = ""
         THEN response'.status = 400 /\ data' = data
         ELSE IF Holding(data, k) = {}
         THEN response'.status = 404 /\ data' = data
         ELSE /\ response'.status = 200
              /\ \E i \in Holding(data, k) : data' = Without(data, i)
              /\ Cardinality(Holding(data', k)) = Cardinality(Holding(data, k)) - 1

\* C27: DELETE /api/data?id=k, when an item with id k exists, removes
\* exactly one item with that id, every other item keeping its value and
\* relative order; without an id parameter the response is 400 and with an
\* id no item has it is 404, the store being unchanged in both cases. The
\* id asked for is the number the parameter starts with.
C27_DeleteRemovesOne == [][DeletesItem]_vars

\* the second of the three items deleted, the first and third left in order
C27_Witness ==
  /\ script = "api"
  /\ request.method = "DELETE" /\ request.id = Param("2")
  /\ response.status = 200
  /\ data = <<SeedData[1], SeedData[3]>>

\* the fields of the body laid over the item: a field the body has takes
\* the body's value, every other field keeps the item's
MergedOver(item, body) ==
  [k \in {"id", "name", "description", "extra"} |->
     IF body[k].t = "undefined" THEN item[k] ELSE body[k]]

\* a PUT for the id of a stored item changes that item alone, to the item
\* with the body merged over it, and keeps its id and the number of items
UpdatesOne(body) ==
  /\ response'.status = 200
  /\ Len(data') = Len(data)
  /\ \E i \in Holding(data, body["id"]) :
        /\ data'[i] = MergedOver(data[i], body)
        /\ data'[i]["id"] = data[i]["id"]
        /\ \A j \in 1..Len(data) : j # i => data'[j] = data[j]
        /\ response'.items = <<data'[i]>>

Refused(status) == response'.status = status /\ data' = data

\* a GET leaves the store as it is
GetReadsOnly == Serves("GET") => data' = data

\* the PUT of the claim as stated: 400 exactly for a body without id
UpdatesItemAsStated ==
  Serves("PUT")
  => LET body == request'.body.fields
     IN  IF request'.body.json # "object" \/ body["id"].t = "undefined"
         THEN Refused(400)
         ELSE IF Holding(data, body["id"]) = {}
         THEN Refused(404)
         ELSE UpdatesOne(body)

\* the PUT as amended: 400 also for an id that is null, 0 or ""
UpdatesItem ==
  Serves("PUT")
  => LET body == request'.body.fields
     IN  IF request'.body.json # "object" \/ ~Given(body["id"])
         THEN Refused(400)
         ELSE IF Holding(data, body["id"]) = {}
         THEN Refused(404)
         ELSE UpdatesOne(body)

\* C28 as stated: a PUT whose body id equals the id of a stored item changes
\* only that item (body fields merged over it), its id and the number of
\* items staying the same; a body without id responds 400 and an id
\* matching no item responds 404, the store unchanged in both cases; GET
\* requests never change the store.
C28_PutAsStated == [][UpdatesItemAsStated]_vars /\ [][GetReadsOnly]_vars

\* C28 amended: as stated, but a body whose id is missing or falsy (null, 0,
\* "") responds 400; 404 is the response to a truthy id matching no item.
C28_PutUpdatesOne == [][UpdatesItem]_vars /\ [][GetReadsOnly]_vars

\* the first item renamed in place, the other two as they were
C28_Witness ==
  /\ script = "api"
  /\ request.method = "PUT"
  /\ response.status = 200
  /\ Len(data) = 3
  /\ data[1] = [SeedData[1] EXCEPT !["name"] = Str("Renamed")]
  /\ data[2] = SeedData[2] /\ data[3] = SeedData[3]

\* no two items of the store have the same id
UniqueIds ==
  script = "api"
  => \A i, j \in 1..Len(data) : i # j => data[i]["id"] # data[j]["id"]

\* C29: after any sequence of GET, POST, PUT and DELETE requests on
\* /api/data no two stored items have the same id.
C29_UniqueIds == UniqueIds

\* the first position at which sub occurs in s, 0 when it occurs nowhere
FirstAt(sub, s) ==
  IF Occurs(sub, s)
  THEN CHOOSE i \in 1..Len(s) :
         /\ SubSeq(s, i, i + Len(sub) - 1) = sub
         /\ \A j \in 1..(i - 1) : SubSeq(s, j, j + Len(sub) - 1) # sub
  ELSE 0

\* s with the text of length n at position i replaced by with
Spliced(s, i, n, with) == SubSeq(s, 1, i - 1) \o with \o SubSeq(s, i + n, Len(s))

\* the children placeholders a layout is written with
Placeholders == {"{children}", "{ children }"}

\* the first children placeholder of s: where it starts and how long it is
FirstPlaceholder(s) ==
  LET found == {p \in Placeholders : Occurs(p, s)}
      first == CHOOSE p \in found : \A q \in found : FirstAt(p, s) <= FirstAt(q, s)
  IN  IF found = {} THEN [at |-> 0, len |-> 0]
      ELSE [at |-> FirstAt(first, s), len |-> Len(first)]

Anchor == "import \"./globals.css\";"

ProviderTags(provider) ==
  "<" \o provider \o ">\n        {children}\n      </" \o provider \o ">"

\* the layout an injector call leaves behind: the client directive on top
\* unless "use client" stands in the file, the import behind the first
\* anchor if there is one, the first children placeholder in provider tags
Injected(before, fn) ==
  LET directed == IF Occurs("\"use client\"", before) THEN before
                  ELSE "\"use client\";\n\n" \o before
      imported == IF Occurs(Anchor, directed)
                  THEN Spliced(directed, FirstAt(Anchor, directed) + Len(Anchor), 0,
                               "\n" \o ProviderImportOf(fn))
                  ELSE directed
      ph == FirstPlaceholder(imported)
  IN  IF ph.at = 0 THEN imported
      ELSE Spliced(imported, ph.at, ph.len, ProviderTags(ProviderOf(fn)))

\* a call of an injector on a layout that does not name the provider
InjectsProvider ==
  /\ script = "fn"
  /\ pc \in {"updateLayoutForHeroUI", "updateLayoutForChakraUI"}
  /\ Len(hist') = Len(hist) + 1
  /\ hist[Len(hist)].exists
  /\ ~Occurs(ProviderOf(pc), hist[Len(hist)].content)

ImportFollowsAnchor ==
  InjectsProvider
  => LET before == hist[Len(hist)].content
         after == fs'["src/app/layout.tsx"].content
     IN  /\ writes' = Append(writes, "src/app/layout.tsx")
         /\ exitCode' = -1
         /\ after = Injected(before, pc)
         /\ IF Occurs(Anchor, before)
            THEN Occurs(Anchor \o "\n" \o ProviderImportOf(pc), after)
            ELSE ~Occurs(ProviderImportOf(pc), after)
         /\ ~Occurs("\"use client\"", before)
              => SubSeq(after, 1, 15) = "\"use client\";\n\n"
         /\ FirstPlaceholder(before).at # 0 => Occurs(ProviderTags(ProviderOf(pc)), after)

\* C30: when a provider-injection call modifies the layout, the provider's
\* import statement is inserted immediately after the line
\* import "./globals.css"; if that anchor is absent the import is not added
\* and nothing is reported, while the client directive is still prepended
\* (when "use client" occurs nowhere in the file) and the first children
\* placeholder is still wrapped with the provider tags.
C30_ImportFollowsAnchor == [][ImportFollowsAnchor]_vars

\* a layout without the anchor: directive on top, children wrapped, no import
C30_Witness ==
  /\ script = "fn" /\ pc = "updateLayoutForChakraUI"
  /\ Len(hist) = 2
  /\ hist[1] = File("<body>{children}</body>\n")
  /\ hist[2] = File("\"use client\";\n\n<body><ChakraProvider>\n        {children}\n      </ChakraProvider></body>\n")
  /\ writes = <<"src/app/layout.tsx">>

====
